---- MODULE Spec2Model ----
\* A model of tek-game-runtime's interception engine: the import patcher
\* (wrap_init), the SteamAPI_Init wrapper (version probe, interface shape
\* resolution, vtable shadowing, installation of the common method wrappers)
\* and the per-title steam_api_init callbacks.
EXTENDS Integers, Sequences, FiniteSets, TLC

VARIABLES
  image,        \* the host image's import and delay-load tables
  attach_res,   \* what DllMain(DLL_PROCESS_ATTACH) returned: "none", "TRUE", "FALSE"
  settings,     \* g_settings.steam: app_id, spoof_app_id, auto_update_dlc
  title,        \* statics of 346110.cpp: show_be_servers, show_unavailable_servers, ws_dir_path
  loaded,       \* steamclient::loaded
  sdk,          \* steam_api64.dll as installed: version resource, interfaces
  ver,          \* steam_api::ver
  ptrs,         \* the wrapper's local interface pointers (ISteamApps_ptr, ...)
  inst_vtable,  \* per SDK interface instance: the table its vtable pointer designates
  descs,        \* the wrapper descriptors (ISteamApps_desc, ...)
  origs,        \* the saved pass-through pointers (SteamApps_BIsSubscribedApp_orig, ...)
  pc,           \* position of the host thread
  cur,          \* while pc = "shadow": index in IfaceOrder of the interface being set up
  trace,        \* the steps the current call of the wrapper has executed
  writes,       \* every store of a function pointer the wrapper made through desc.vtable[...]
  reads,        \* every load the wrapper made through desc.orig_vtable[...]
  at_entry,     \* the descriptors, instances and saved pointers when the current call began
  init_calls,   \* how many times the host has called SteamAPI_Init
  real_inits,   \* the current call's calls of the real SteamAPI_Init: SteamAppId, result
  result,       \* what the last call of SteamAPI_Init returned to the host
  call,         \* the host's last call of an ISteamApps method and what it got
  ws_descs,     \* 346110.cpp ws_descs: per item, no entry or the entry's descriptor pointer
  mods,         \* 346110.cpp mods
  mtx,          \* the threads that hold ws_descs_mtx and mods_mtx
  hpc,          \* the ISteamUGC / ISteamUtils wrapper the host thread is in, and where
  jobs,         \* per item, the position of its job thread (ws_job_proc)
  am,           \* tek-steamclient.cpp am: whether the application manager exists
  access,       \* the reads and writes of ws_descs and mods made by the last step
  mm,           \* per server query: the SDK's side, the rules_response_wrapper, the callbacks made
  eos,          \* 2399830.cpp: force_egs_auth, the EOS platform, per EOS_Connect_Login call its login_ctx and calls made
  list_req,     \* the last RequestInternetServerList call: the host's filters and what reached the SDK
  dllmain,      \* DllMain: how g_settings.load() and the per-title callback ended, the calls of wrap_init and unload, what DLL_PROCESS_DETACH returned
  cm            \* update_dlc: its thread, the CM client, the futex done, the request chain and its tek_sc_cm_data_pics

vars == <<image, attach_res, settings, title, loaded, sdk, ver, ptrs,
          inst_vtable, descs, origs, pc, cur, trace, writes, reads, at_entry,
          init_calls, real_inits, result, call, ws_descs, mods, mtx, hpc,
          jobs, am, access, mm, eos, list_req, dllmain,
          cm>>

\* The variables the bootstrap leaves alone: they change once the host
\* calls the installed wrappers.
rt_vars == <<call, ws_descs, mods, mtx, hpc, jobs, am, access, mm, eos,
            list_req, dllmain,
          cm>>

\* ---------------------------------------------------------------------
\* Bounds of the model
\* ---------------------------------------------------------------------

\* How many times the host calls SteamAPI_Init.
MaxInitCalls == 2

\* How many Steam Workshop items the host asks for.
MaxItems == 1

\* How many times the host calls EOS_Connect_Login.
MaxLogins == 1

\* The largest max_entries the host passes to GetSubscribedItems.
MaxEntries == 2

\* How many server queries the host starts with ServerRules.
MaxQueries == 1

\* How many rules the SDK reports for one server query.
MaxRules == 2

\* The DLC maps steam_api_init_346110 asks about, counted from the first.
MaxDlc == 2

\* The filters the host passes to RequestInternetServerList.
MaxFilters == 2

\* The segments of a listofdlc value.
MaxListed == 2

\* How many entries mods holds before the host stops subscribing.
MaxMods == 2

\* ---------------------------------------------------------------------
\* Version words
\* ---------------------------------------------------------------------

\* A 64-bit version word dwFileVersionMS:dwFileVersionLS is kept as its four
\* 16-bit fields <<major, minor, build, revision>>; unsigned 64-bit
\* comparison is the lexicographic comparison of the fields.
VerLess(a, b) ==
  \/ a[1] < b[1]
  \/ a[1] = b[1] /\ a[2] < b[2]
  \/ a[1] = b[1] /\ a[2] = b[2] /\ a[3] < b[3]
  \/ a[1] = b[1] /\ a[2] = b[2] /\ a[3] = b[3] /\ a[4] < b[4]

\* The comparison made on the high word alone.
VerGEMajor(v, threshold) == v[1] >= threshold[1]

\* ver >= threshold
VerGE(v, threshold) == ~VerLess(v, threshold)

\* 0x0009003C002C000A
max_supported_ver == <<9, 60, 44, 10>>

WordMax == 65535

\* The version word that follows v (v is not the largest word).
VerSucc(v) ==
  IF v[4] < WordMax THEN <<v[1], v[2], v[3], v[4] + 1>>
  ELSE IF v[3] < WordMax THEN <<v[1], v[2], v[3] + 1, 0>>
  ELSE IF v[2] < WordMax THEN <<v[1], v[2] + 1, 0, 0>>
  ELSE <<v[1] + 1, 0, 0, 0>>

\* The version word that precedes v (v is not zero).
VerPred(v) ==
  IF v[4] > 0 THEN <<v[1], v[2], v[3], v[4] - 1>>
  ELSE IF v[3] > 0 THEN <<v[1], v[2], v[3] - 1, WordMax>>
  ELSE IF v[2] > 0 THEN <<v[1], v[2] - 1, WordMax, WordMax>>
  ELSE <<v[1] - 1, WordMax, WordMax, WordMax>>

\* ---------------------------------------------------------------------
\* Interface method enumerations and shape records
\* ---------------------------------------------------------------------

Range(s) == {s[k] : k \in 1..Len(s)}

\* ISteamUGC_m_GetItemUpdateInfo = ISteamUGC_m_GetItemDownloadInfo
EnumAlias(name) ==
  IF name = "GetItemUpdateInfo" THEN "GetItemDownloadInfo" ELSE name

\* The value of the enumerator `name` of the enumeration `enum`.
EnumVal(enum, name) ==
  (CHOOSE k \in 1..Len(enum) : enum[k] = EnumAlias(name)) - 1

\* for (i = 0; i < num_methods; ++i) vm_idxs[i] = i;
\* as the sequence of method values in vtable order.
Identity(n) == [k \in 1..n |-> k - 1]

\* vm_idxs[<names[k]>] = k - 1 for every listed name,
\* as the sequence of method values in vtable order.
OrderOf(enum, names) == [k \in 1..Len(names) |-> EnumVal(enum, names[k])]

\* enum ISteamApps_m: the value of a method is its position - 1.
ISteamApps_m ==
  <<
     "BIsSubscribed", "BIsLowViolence", "BIsCybercafe", "BIsVACBanned",
     "GetCurrentGameLanguage", "GetAvailableGameLanguages",
     "BIsSubscribedApp", "BIsDlcInstalled", "GetEarliestPurchaseUnixTime",
     "BIsSubscribedFromFreeWeekend", "GetDLCCount", "BGetDLCDataByIndex",
     "InstallDLC", "UninstallDLC", "RequestAppProofOfPurchaseKey",
     "GetCurrentBetaName", "MarkContentCorrupt", "GetInstalledDepots",
     "GetAppInstallDir", "BIsAppInstalled", "GetAppOwner",
     "GetLaunchQueryParam", "GetDlcDownloadProgress", "GetAppBuildId",
     "RequestAllProofOfPurchaseKeys", "GetFileDetails",
     "GetLaunchCommandLine", "BIsSubscribedFromFamilySharing",
     "BIsTimedTrial", "SetDlcContext", "GetNumBetas", "GetBetaInfo",
     "SetActiveBeta"
  >>

\* enum ISteamMatchmaking_m: the value of a method is its position - 1.
ISteamMatchmaking_m ==
  <<
     "GetFavoriteGameCount", "GetFavoriteGame", "AddFavoriteGame",
     "RemoveFavoriteGame", "RequestLobbyList",
     "AddRequestLobbyListStringFilter",
     "AddRequestLobbyListNumericalFilter",
     "AddRequestLobbyListNearValueFilter",
     "AddRequestLobbyListFilterSlotsAvailable",
     "AddRequestLobbyListDistanceFilter",
     "AddRequestLobbyListResultCountFilter",
     "AddRequestLobbyListCompatibleMembersFilter", "GetLobbyByIndex",
     "CreateLobby", "JoinLobby", "LeaveLobby", "InviteUserToLobby",
     "GetNumLobbyMembers", "GetLobbyMemberByIndex", "GetLobbyData",
     "SetLobbyData", "GetLobbyDataCount", "GetLobbyDataByIndex",
     "DeleteLobbyData", "GetLobbyMemberData", "SetLobbyMemberData",
     "SendLobbyChatMsg", "GetLobbyChatEntry", "RequestLobbyData",
     "SetLobbyGameServer", "GetLobbyGameServer", "SetLobbyMemberLimit",
     "GetLobbyMemberLimit", "SetLobbyType", "SetLobbyJoinable",
     "GetLobbyOwner", "SetLobbyOwner", "SetLinkedLobby"
  >>

\* enum ISteamMatchmakingServers_m: the value of a method is its position - 1.
ISteamMatchmakingServers_m ==
  <<
     "RequestInternetServerList", "RequestLANServerList",
     "RequestFriendsServerList", "RequestFavoritesServerList",
     "RequestHistoryServerList", "RequestSpectatorServerList",
     "ReleaseRequest", "GetServerDetails", "CancelQuery", "RefreshQuery",
     "IsRefreshing", "GetServerCount", "RefreshServer", "PingServer",
     "PlayerDetails", "ServerRules", "CancelServerQuery"
  >>

\* enum ISteamUGC_m: the value of a method is its position - 1.
ISteamUGC_m ==
  <<
     "CreateQueryUserUGCRequest", "CreateQueryAllUGCRequestCursor",
     "CreateQueryAllUGCRequestPage", "CreateQueryUGCDetailsRequest",
     "SendQueryUGCRequest", "GetQueryUGCResult", "GetQueryUGCNumTags",
     "GetQueryUGCTag", "GetQueryUGCTagDisplayName", "GetQueryUGCPreviewURL",
     "GetQueryUGCMetadata", "GetQueryUGCChildren", "GetQueryUGCStatistic",
     "GetQueryUGCNumAdditionalPreviews", "GetQueryUGCAdditionalPreview",
     "GetQueryUGCNumKeyValueTags", "GetQueryFirstUGCKeyValueTag",
     "GetQueryUGCKeyValueTag", "GetNumSupportedGameVersions",
     "GetSupportedGameVersionData", "GetQueryUGCContentDescriptors",
     "ReleaseQueryUGCRequest", "AddRequiredTag", "AddRequiredTagGroup",
     "AddExcludedTag", "SetReturnOnlyIDs", "SetReturnKeyValueTags",
     "SetReturnLongDescription", "SetReturnMetadata", "SetReturnChildren",
     "SetReturnAdditionalPreviews", "SetReturnTotalOnly",
     "SetReturnPlaytimeStats", "SetLanguage", "SetAllowCachedResponse",
     "SetAdminQuery", "SetCloudFileNameFilter", "SetMatchAnyTag",
     "SetSearchText", "SetRankedByTrendDays", "SetTimeCreatedDateRange",
     "SetTimeUpdatedDateRange", "AddRequiredKeyValueTag",
     "RequestUGCDetails", "CreateItem", "StartItemUpdate", "SetItemTitle",
     "SetItemDescription", "SetItemUpdateLanguage", "SetItemMetadata",
     "SetItemVisibility", "SetItemTags", "SetItemContent", "SetItemPreview",
     "SetAllowLegacyUpload", "RemoveAllItemKeyValueTags",
     "RemoveItemKeyValueTags", "AddItemKeyValueTag", "AddItemPreviewFile",
     "AddItemPreviewVideo", "UpdateItemPreviewFile",
     "UpdateItemPreviewVideo", "RemoveItemPreview", "AddContentDescriptor",
     "RemoveContentDescriptor", "SetRequiredGameVersions",
     "SubmitItemUpdate", "GetItemUpdateProgress", "SetUserItemVote",
     "GetUserItemVote", "AddItemToFavorites", "RemoveItemFromFavorites",
     "SubscribeItem", "UnsubscribeItem", "GetNumSubscribedItems",
     "GetSubscribedItems", "GetItemState", "GetItemInstallInfo",
     "GetItemDownloadInfo", "DownloadItem", "BInitWorkshopForGameServer",
     "SuspendDownloads", "StartPlaytimeTracking", "StopPlaytimeTracking",
     "StopPlaytimeTrackingForAllItems", "AddDependency", "RemoveDependency",
     "AddAppDependency", "RemoveAppDependency", "GetAppDependencies",
     "DeleteItem", "ShowWorkshopEULA", "GetWorkshopEULAStatus",
     "GetUserContentDescriptorPreferences", "SetItemsDisabledLocally",
     "SetSubscriptionsLoadOrder"
  >>

\* enum ISteamUser_m: the value of a method is its position - 1.
ISteamUser_m ==
  <<
     "GetHSteamUser", "BLoggedOn", "GetSteamID", "InitiateGameConnection",
     "TerminateGameConnection", "TrackAppUsageEvent", "GetUserDataFolder",
     "StartVoiceRecording", "StopVoiceRecording", "GetAvailableVoice",
     "GetVoice", "DecompressVoice", "GetVoiceOptimalSampleRate",
     "GetAuthSessionTicket", "GetAuthTicketForWebApi", "BeginAuthSession",
     "EndAuthSession", "CancelAuthTicket", "UserHasLicenseForApp",
     "BIsBehindNAT", "AdvertiseGame", "RequestEncryptedAppTicket",
     "GetEncryptedAppTicket", "GetGameBadgeLevel", "GetPlayerSteamLevel",
     "RequestStoreAuthURL", "BIsPhoneVerified", "BIsTwoFactorEnabled",
     "BIsPhoneIdentifying", "BIsPhoneRequiringVerification",
     "GetMarketEligibility", "GetDurationControl",
     "BSetDurationControlOnlineState"
  >>

\* enum ISteamUtils_m: the value of a method is its position - 1.
ISteamUtils_m ==
  <<
     "GetSecondsSinceAppActive", "GetSecondsSinceComputerActive",
     "GetConnectedUniverse", "GetServerRealTime", "GetIPCountry",
     "GetImageSize", "GetImageRGBA", "GetCSERIPPort",
     "GetCurrentBatteryPower", "GetAppID", "SetOverlayNotificationPosition",
     "IsAPICallCompleted", "GetAPICallFailureReason", "GetAPICallResult",
     "RunFrame", "GetIPCCallCount", "SetWarningMessageHook",
     "IsOverlayEnabled", "BOverlayNeedsPresent", "CheckFileSignature",
     "ShowGamepadTextInput", "GetEnteredGamepadTextLength",
     "GetEnteredGamepadTextInput", "GetSteamUILanguage",
     "IsSteamRunningInVR", "SetOverlayNotificationInset",
     "IsSteamInBigPictureMode", "StartVRDashboard",
     "IsVRHeadsetStreamingEnabled", "SetVRHeadsetStreamingEnabled",
     "IsSteamChinaLauncher", "InitFilterText", "FilterText",
     "GetIPv6ConnectivityState", "IsSteamRunningOnSteamDeck",
     "ShowFloatingGamepadTextInput", "SetGameLauncherMode",
     "DismissFloatingGamepadTextInput", "DismissGamepadTextInput"
  >>

\* Shape records of ISteamApps, in the order the if-chain tests them.
ISteamApps_shapes ==
  <<
    [min_version |-> <<3, 42, 61, 66>>, num_methods |-> 33,
     order |-> Identity(33)],
    [min_version |-> <<2, 59, 51, 43>>, num_methods |-> 24,
     order |-> Identity(24)],
    [min_version |-> <<1, 98, 31, 73>>, num_methods |-> 22,
     order |-> Identity(22)],
    [min_version |-> <<1, 30, 50, 46>>, num_methods |-> 20,
     order |-> Identity(20)],
    [min_version |-> <<0, 96, 33, 48>>, num_methods |-> 14,
     order |-> Identity(14)],
    [min_version |-> <<0, 0, 0, 0>>, num_methods |-> 8,
     order |-> Identity(8)]
  >>

\* ISteamMatchmaking, 36 methods (steam_api.cpp:398): the methods in vtable order.
ISteamMatchmaking_order_36 ==
  <<
     "GetFavoriteGameCount", "GetFavoriteGame", "AddFavoriteGame",
     "RemoveFavoriteGame", "RequestLobbyList",
     "AddRequestLobbyListStringFilter",
     "AddRequestLobbyListNumericalFilter",
     "AddRequestLobbyListNearValueFilter",
     "AddRequestLobbyListFilterSlotsAvailable",
     "AddRequestLobbyListDistanceFilter",
     "AddRequestLobbyListResultCountFilter", "GetLobbyByIndex",
     "CreateLobby", "JoinLobby", "LeaveLobby", "InviteUserToLobby",
     "GetNumLobbyMembers", "GetLobbyMemberByIndex", "GetLobbyData",
     "SetLobbyData", "GetLobbyDataCount", "GetLobbyDataByIndex",
     "DeleteLobbyData", "GetLobbyMemberData", "SetLobbyMemberData",
     "SendLobbyChatMsg", "GetLobbyChatEntry", "RequestLobbyData",
     "SetLobbyGameServer", "GetLobbyGameServer", "SetLobbyMemberLimit",
     "GetLobbyMemberLimit", "SetLobbyType", "SetLobbyJoinable",
     "GetLobbyOwner", "SetLobbyOwner"
  >>

\* Shape records of ISteamMatchmaking, in the order the if-chain tests them.
ISteamMatchmaking_shapes ==
  <<
    [min_version |-> <<1, 23, 45, 93>>, num_methods |-> 38,
     order |-> Identity(38)],
    [min_version |-> <<0, 0, 0, 0>>, num_methods |-> 36,
     order |-> OrderOf(ISteamMatchmaking_m, ISteamMatchmaking_order_36)]
  >>

\* Shape records of ISteamMatchmakingServers, in the order the if-chain tests them.
ISteamMatchmakingServers_shapes ==
  <<
    [min_version |-> <<0, 0, 0, 0>>, num_methods |-> 17,
     order |-> Identity(17)]
  >>

\* ISteamUGC, 90 methods (steam_api.cpp:483): the methods in vtable order.
ISteamUGC_order_90 ==
  <<
     "CreateQueryUserUGCRequest", "CreateQueryAllUGCRequestCursor",
     "CreateQueryAllUGCRequestPage", "CreateQueryUGCDetailsRequest",
     "SendQueryUGCRequest", "GetQueryUGCResult", "GetQueryUGCNumTags",
     "GetQueryUGCTag", "GetQueryUGCTagDisplayName", "GetQueryUGCPreviewURL",
     "GetQueryUGCMetadata", "GetQueryUGCChildren", "GetQueryUGCStatistic",
     "GetQueryUGCNumAdditionalPreviews", "GetQueryUGCAdditionalPreview",
     "GetQueryUGCNumKeyValueTags", "GetQueryFirstUGCKeyValueTag",
     "GetQueryUGCKeyValueTag", "GetQueryUGCContentDescriptors",
     "ReleaseQueryUGCRequest", "AddRequiredTag", "AddRequiredTagGroup",
     "AddExcludedTag", "SetReturnOnlyIDs", "SetReturnKeyValueTags",
     "SetReturnLongDescription", "SetReturnMetadata", "SetReturnChildren",
     "SetReturnAdditionalPreviews", "SetReturnTotalOnly",
     "SetReturnPlaytimeStats", "SetLanguage", "SetAllowCachedResponse",
     "SetCloudFileNameFilter", "SetMatchAnyTag", "SetSearchText",
     "SetRankedByTrendDays", "SetTimeCreatedDateRange",
     "SetTimeUpdatedDateRange", "AddRequiredKeyValueTag",
     "RequestUGCDetails", "CreateItem", "StartItemUpdate", "SetItemTitle",
     "SetItemDescription", "SetItemUpdateLanguage", "SetItemMetadata",
     "SetItemVisibility", "SetItemTags", "SetItemContent", "SetItemPreview",
     "SetAllowLegacyUpload", "RemoveAllItemKeyValueTags",
     "RemoveItemKeyValueTags", "AddItemKeyValueTag", "AddItemPreviewFile",
     "AddItemPreviewVideo", "UpdateItemPreviewFile",
     "UpdateItemPreviewVideo", "RemoveItemPreview", "AddContentDescriptor",
     "RemoveContentDescriptor", "SubmitItemUpdate", "GetItemUpdateProgress",
     "SetUserItemVote", "GetUserItemVote", "AddItemToFavorites",
     "RemoveItemFromFavorites", "SubscribeItem", "UnsubscribeItem",
     "GetNumSubscribedItems", "GetSubscribedItems", "GetItemState",
     "GetItemInstallInfo", "GetItemDownloadInfo", "DownloadItem",
     "BInitWorkshopForGameServer", "SuspendDownloads",
     "StartPlaytimeTracking", "StopPlaytimeTracking",
     "StopPlaytimeTrackingForAllItems", "AddDependency", "RemoveDependency",
     "AddAppDependency", "RemoveAppDependency", "GetAppDependencies",
     "DeleteItem", "ShowWorkshopEULA", "GetWorkshopEULAStatus",
     "GetUserContentDescriptorPreferences"
  >>

\* ISteamUGC, 89 methods (steam_api.cpp:577): the methods in vtable order.
ISteamUGC_order_89 ==
  <<
     "CreateQueryUserUGCRequest", "CreateQueryAllUGCRequestCursor",
     "CreateQueryAllUGCRequestPage", "CreateQueryUGCDetailsRequest",
     "SendQueryUGCRequest", "GetQueryUGCResult", "GetQueryUGCNumTags",
     "GetQueryUGCTag", "GetQueryUGCTagDisplayName", "GetQueryUGCPreviewURL",
     "GetQueryUGCMetadata", "GetQueryUGCChildren", "GetQueryUGCStatistic",
     "GetQueryUGCNumAdditionalPreviews", "GetQueryUGCAdditionalPreview",
     "GetQueryUGCNumKeyValueTags", "GetQueryFirstUGCKeyValueTag",
     "GetQueryUGCKeyValueTag", "GetQueryUGCContentDescriptors",
     "ReleaseQueryUGCRequest", "AddRequiredTag", "AddRequiredTagGroup",
     "AddExcludedTag", "SetReturnOnlyIDs", "SetReturnKeyValueTags",
     "SetReturnLongDescription", "SetReturnMetadata", "SetReturnChildren",
     "SetReturnAdditionalPreviews", "SetReturnTotalOnly",
     "SetReturnPlaytimeStats", "SetLanguage", "SetAllowCachedResponse",
     "SetCloudFileNameFilter", "SetMatchAnyTag", "SetSearchText",
     "SetRankedByTrendDays", "SetTimeCreatedDateRange",
     "SetTimeUpdatedDateRange", "AddRequiredKeyValueTag",
     "RequestUGCDetails", "CreateItem", "StartItemUpdate", "SetItemTitle",
     "SetItemDescription", "SetItemUpdateLanguage", "SetItemMetadata",
     "SetItemVisibility", "SetItemTags", "SetItemContent", "SetItemPreview",
     "SetAllowLegacyUpload", "RemoveAllItemKeyValueTags",
     "RemoveItemKeyValueTags", "AddItemKeyValueTag", "AddItemPreviewFile",
     "AddItemPreviewVideo", "UpdateItemPreviewFile",
     "UpdateItemPreviewVideo", "RemoveItemPreview", "AddContentDescriptor",
     "RemoveContentDescriptor", "SubmitItemUpdate", "GetItemUpdateProgress",
     "SetUserItemVote", "GetUserItemVote", "AddItemToFavorites",
     "RemoveItemFromFavorites", "SubscribeItem", "UnsubscribeItem",
     "GetNumSubscribedItems", "GetSubscribedItems", "GetItemState",
     "GetItemInstallInfo", "GetItemDownloadInfo", "DownloadItem",
     "BInitWorkshopForGameServer", "SuspendDownloads",
     "StartPlaytimeTracking", "StopPlaytimeTracking",
     "StopPlaytimeTrackingForAllItems", "AddDependency", "RemoveDependency",
     "AddAppDependency", "RemoveAppDependency", "GetAppDependencies",
     "DeleteItem", "ShowWorkshopEULA", "GetWorkshopEULAStatus"
  >>

\* ISteamUGC, 86 methods (steam_api.cpp:669): the methods in vtable order.
ISteamUGC_order_86 ==
  <<
     "CreateQueryUserUGCRequest", "CreateQueryAllUGCRequestCursor",
     "CreateQueryAllUGCRequestPage", "CreateQueryUGCDetailsRequest",
     "SendQueryUGCRequest", "GetQueryUGCResult", "GetQueryUGCNumTags",
     "GetQueryUGCTag", "GetQueryUGCTagDisplayName", "GetQueryUGCPreviewURL",
     "GetQueryUGCMetadata", "GetQueryUGCChildren", "GetQueryUGCStatistic",
     "GetQueryUGCNumAdditionalPreviews", "GetQueryUGCAdditionalPreview",
     "GetQueryUGCNumKeyValueTags", "GetQueryFirstUGCKeyValueTag",
     "GetQueryUGCKeyValueTag", "ReleaseQueryUGCRequest", "AddRequiredTag",
     "AddRequiredTagGroup", "AddExcludedTag", "SetReturnOnlyIDs",
     "SetReturnKeyValueTags", "SetReturnLongDescription",
     "SetReturnMetadata", "SetReturnChildren",
     "SetReturnAdditionalPreviews", "SetReturnTotalOnly",
     "SetReturnPlaytimeStats", "SetLanguage", "SetAllowCachedResponse",
     "SetCloudFileNameFilter", "SetMatchAnyTag", "SetSearchText",
     "SetRankedByTrendDays", "SetTimeCreatedDateRange",
     "SetTimeUpdatedDateRange", "AddRequiredKeyValueTag",
     "RequestUGCDetails", "CreateItem", "StartItemUpdate", "SetItemTitle",
     "SetItemDescription", "SetItemUpdateLanguage", "SetItemMetadata",
     "SetItemVisibility", "SetItemTags", "SetItemContent", "SetItemPreview",
     "SetAllowLegacyUpload", "RemoveAllItemKeyValueTags",
     "RemoveItemKeyValueTags", "AddItemKeyValueTag", "AddItemPreviewFile",
     "AddItemPreviewVideo", "UpdateItemPreviewFile",
     "UpdateItemPreviewVideo", "RemoveItemPreview", "SubmitItemUpdate",
     "GetItemUpdateProgress", "SetUserItemVote", "GetUserItemVote",
     "AddItemToFavorites", "RemoveItemFromFavorites", "SubscribeItem",
     "UnsubscribeItem", "GetNumSubscribedItems", "GetSubscribedItems",
     "GetItemState", "GetItemInstallInfo", "GetItemDownloadInfo",
     "DownloadItem", "BInitWorkshopForGameServer", "SuspendDownloads",
     "StartPlaytimeTracking", "StopPlaytimeTracking",
     "StopPlaytimeTrackingForAllItems", "AddDependency", "RemoveDependency",
     "AddAppDependency", "RemoveAppDependency", "GetAppDependencies",
     "DeleteItem", "ShowWorkshopEULA", "GetWorkshopEULAStatus"
  >>

\* ISteamUGC, 84 methods (steam_api.cpp:758): the methods in vtable order.
ISteamUGC_order_84 ==
  <<
     "CreateQueryUserUGCRequest", "CreateQueryAllUGCRequestCursor",
     "CreateQueryAllUGCRequestPage", "CreateQueryUGCDetailsRequest",
     "SendQueryUGCRequest", "GetQueryUGCResult", "GetQueryUGCNumTags",
     "GetQueryUGCTag", "GetQueryUGCTagDisplayName", "GetQueryUGCPreviewURL",
     "GetQueryUGCMetadata", "GetQueryUGCChildren", "GetQueryUGCStatistic",
     "GetQueryUGCNumAdditionalPreviews", "GetQueryUGCAdditionalPreview",
     "GetQueryUGCNumKeyValueTags", "GetQueryFirstUGCKeyValueTag",
     "GetQueryUGCKeyValueTag", "ReleaseQueryUGCRequest", "AddRequiredTag",
     "AddRequiredTagGroup", "AddExcludedTag", "SetReturnOnlyIDs",
     "SetReturnKeyValueTags", "SetReturnLongDescription",
     "SetReturnMetadata", "SetReturnChildren",
     "SetReturnAdditionalPreviews", "SetReturnTotalOnly",
     "SetReturnPlaytimeStats", "SetLanguage", "SetAllowCachedResponse",
     "SetCloudFileNameFilter", "SetMatchAnyTag", "SetSearchText",
     "SetRankedByTrendDays", "AddRequiredKeyValueTag", "RequestUGCDetails",
     "CreateItem", "StartItemUpdate", "SetItemTitle", "SetItemDescription",
     "SetItemUpdateLanguage", "SetItemMetadata", "SetItemVisibility",
     "SetItemTags", "SetItemContent", "SetItemPreview",
     "SetAllowLegacyUpload", "RemoveAllItemKeyValueTags",
     "RemoveItemKeyValueTags", "AddItemKeyValueTag", "AddItemPreviewFile",
     "AddItemPreviewVideo", "UpdateItemPreviewFile",
     "UpdateItemPreviewVideo", "RemoveItemPreview", "SubmitItemUpdate",
     "GetItemUpdateProgress", "SetUserItemVote", "GetUserItemVote",
     "AddItemToFavorites", "RemoveItemFromFavorites", "SubscribeItem",
     "UnsubscribeItem", "GetNumSubscribedItems", "GetSubscribedItems",
     "GetItemState", "GetItemInstallInfo", "GetItemDownloadInfo",
     "DownloadItem", "BInitWorkshopForGameServer", "SuspendDownloads",
     "StartPlaytimeTracking", "StopPlaytimeTracking",
     "StopPlaytimeTrackingForAllItems", "AddDependency", "RemoveDependency",
     "AddAppDependency", "RemoveAppDependency", "GetAppDependencies",
     "DeleteItem", "ShowWorkshopEULA", "GetWorkshopEULAStatus"
  >>

\* ISteamUGC, 79 methods (steam_api.cpp:845): the methods in vtable order.
ISteamUGC_order_79 ==
  <<
     "CreateQueryUserUGCRequest", "CreateQueryAllUGCRequestCursor",
     "CreateQueryAllUGCRequestPage", "CreateQueryUGCDetailsRequest",
     "SendQueryUGCRequest", "GetQueryUGCResult", "GetQueryUGCPreviewURL",
     "GetQueryUGCMetadata", "GetQueryUGCChildren", "GetQueryUGCStatistic",
     "GetQueryUGCNumAdditionalPreviews", "GetQueryUGCAdditionalPreview",
     "GetQueryUGCNumKeyValueTags", "GetQueryFirstUGCKeyValueTag",
     "GetQueryUGCKeyValueTag", "ReleaseQueryUGCRequest", "AddRequiredTag",
     "AddRequiredTagGroup", "AddExcludedTag", "SetReturnOnlyIDs",
     "SetReturnKeyValueTags", "SetReturnLongDescription",
     "SetReturnMetadata", "SetReturnChildren",
     "SetReturnAdditionalPreviews", "SetReturnTotalOnly",
     "SetReturnPlaytimeStats", "SetLanguage", "SetAllowCachedResponse",
     "SetCloudFileNameFilter", "SetMatchAnyTag", "SetSearchText",
     "SetRankedByTrendDays", "AddRequiredKeyValueTag", "RequestUGCDetails",
     "CreateItem", "StartItemUpdate", "SetItemTitle", "SetItemDescription",
     "SetItemUpdateLanguage", "SetItemMetadata", "SetItemVisibility",
     "SetItemTags", "SetItemContent", "SetItemPreview",
     "SetAllowLegacyUpload", "RemoveAllItemKeyValueTags",
     "RemoveItemKeyValueTags", "AddItemKeyValueTag", "AddItemPreviewFile",
     "AddItemPreviewVideo", "UpdateItemPreviewFile",
     "UpdateItemPreviewVideo", "RemoveItemPreview", "SubmitItemUpdate",
     "GetItemUpdateProgress", "SetUserItemVote", "GetUserItemVote",
     "AddItemToFavorites", "RemoveItemFromFavorites", "SubscribeItem",
     "UnsubscribeItem", "GetNumSubscribedItems", "GetSubscribedItems",
     "GetItemState", "GetItemInstallInfo", "GetItemDownloadInfo",
     "DownloadItem", "BInitWorkshopForGameServer", "SuspendDownloads",
     "StartPlaytimeTracking", "StopPlaytimeTracking",
     "StopPlaytimeTrackingForAllItems", "AddDependency", "RemoveDependency",
     "AddAppDependency", "RemoveAppDependency", "GetAppDependencies",
     "DeleteItem"
  >>

\* ISteamUGC, 78 methods (steam_api.cpp:927): the methods in vtable order.
ISteamUGC_order_78 ==
  <<
     "CreateQueryUserUGCRequest", "CreateQueryAllUGCRequestCursor",
     "CreateQueryAllUGCRequestPage", "CreateQueryUGCDetailsRequest",
     "SendQueryUGCRequest", "GetQueryUGCResult", "GetQueryUGCPreviewURL",
     "GetQueryUGCMetadata", "GetQueryUGCChildren", "GetQueryUGCStatistic",
     "GetQueryUGCNumAdditionalPreviews", "GetQueryUGCAdditionalPreview",
     "GetQueryUGCNumKeyValueTags", "GetQueryFirstUGCKeyValueTag",
     "GetQueryUGCKeyValueTag", "ReleaseQueryUGCRequest", "AddRequiredTag",
     "AddExcludedTag", "SetReturnOnlyIDs", "SetReturnKeyValueTags",
     "SetReturnLongDescription", "SetReturnMetadata", "SetReturnChildren",
     "SetReturnAdditionalPreviews", "SetReturnTotalOnly",
     "SetReturnPlaytimeStats", "SetLanguage", "SetAllowCachedResponse",
     "SetCloudFileNameFilter", "SetMatchAnyTag", "SetSearchText",
     "SetRankedByTrendDays", "AddRequiredKeyValueTag", "RequestUGCDetails",
     "CreateItem", "StartItemUpdate", "SetItemTitle", "SetItemDescription",
     "SetItemUpdateLanguage", "SetItemMetadata", "SetItemVisibility",
     "SetItemTags", "SetItemContent", "SetItemPreview",
     "SetAllowLegacyUpload", "RemoveAllItemKeyValueTags",
     "RemoveItemKeyValueTags", "AddItemKeyValueTag", "AddItemPreviewFile",
     "AddItemPreviewVideo", "UpdateItemPreviewFile",
     "UpdateItemPreviewVideo", "RemoveItemPreview", "SubmitItemUpdate",
     "GetItemUpdateProgress", "SetUserItemVote", "GetUserItemVote",
     "AddItemToFavorites", "RemoveItemFromFavorites", "SubscribeItem",
     "UnsubscribeItem", "GetNumSubscribedItems", "GetSubscribedItems",
     "GetItemState", "GetItemInstallInfo", "GetItemDownloadInfo",
     "DownloadItem", "BInitWorkshopForGameServer", "SuspendDownloads",
     "StartPlaytimeTracking", "StopPlaytimeTracking",
     "StopPlaytimeTrackingForAllItems", "AddDependency", "RemoveDependency",
     "AddAppDependency", "RemoveAppDependency", "GetAppDependencies",
     "DeleteItem"
  >>

\* ISteamUGC, 76 methods (steam_api.cpp:1008): the methods in vtable order.
ISteamUGC_order_76 ==
  <<
     "CreateQueryUserUGCRequest", "CreateQueryAllUGCRequestCursor",
     "CreateQueryAllUGCRequestPage", "CreateQueryUGCDetailsRequest",
     "SendQueryUGCRequest", "GetQueryUGCResult", "GetQueryUGCPreviewURL",
     "GetQueryUGCMetadata", "GetQueryUGCChildren", "GetQueryUGCStatistic",
     "GetQueryUGCNumAdditionalPreviews", "GetQueryUGCAdditionalPreview",
     "GetQueryUGCNumKeyValueTags", "GetQueryUGCKeyValueTag",
     "ReleaseQueryUGCRequest", "AddRequiredTag", "AddExcludedTag",
     "SetReturnOnlyIDs", "SetReturnKeyValueTags",
     "SetReturnLongDescription", "SetReturnMetadata", "SetReturnChildren",
     "SetReturnAdditionalPreviews", "SetReturnTotalOnly",
     "SetReturnPlaytimeStats", "SetLanguage", "SetAllowCachedResponse",
     "SetCloudFileNameFilter", "SetMatchAnyTag", "SetSearchText",
     "SetRankedByTrendDays", "AddRequiredKeyValueTag", "RequestUGCDetails",
     "CreateItem", "StartItemUpdate", "SetItemTitle", "SetItemDescription",
     "SetItemUpdateLanguage", "SetItemMetadata", "SetItemVisibility",
     "SetItemTags", "SetItemContent", "SetItemPreview",
     "SetAllowLegacyUpload", "RemoveItemKeyValueTags", "AddItemKeyValueTag",
     "AddItemPreviewFile", "AddItemPreviewVideo", "UpdateItemPreviewFile",
     "UpdateItemPreviewVideo", "RemoveItemPreview", "SubmitItemUpdate",
     "GetItemUpdateProgress", "SetUserItemVote", "GetUserItemVote",
     "AddItemToFavorites", "RemoveItemFromFavorites", "SubscribeItem",
     "UnsubscribeItem", "GetNumSubscribedItems", "GetSubscribedItems",
     "GetItemState", "GetItemInstallInfo", "GetItemDownloadInfo",
     "DownloadItem", "BInitWorkshopForGameServer", "SuspendDownloads",
     "StartPlaytimeTracking", "StopPlaytimeTracking",
     "StopPlaytimeTrackingForAllItems", "AddDependency", "RemoveDependency",
     "AddAppDependency", "RemoveAppDependency", "GetAppDependencies",
     "DeleteItem"
  >>

\* ISteamUGC, 74 methods (steam_api.cpp:1087): the methods in vtable order.
ISteamUGC_order_74 ==
  <<
     "CreateQueryUserUGCRequest", "CreateQueryAllUGCRequestPage",
     "CreateQueryUGCDetailsRequest", "SendQueryUGCRequest",
     "GetQueryUGCResult", "GetQueryUGCPreviewURL", "GetQueryUGCMetadata",
     "GetQueryUGCChildren", "GetQueryUGCStatistic",
     "GetQueryUGCNumAdditionalPreviews", "GetQueryUGCAdditionalPreview",
     "GetQueryUGCNumKeyValueTags", "GetQueryUGCKeyValueTag",
     "ReleaseQueryUGCRequest", "AddRequiredTag", "AddExcludedTag",
     "SetReturnOnlyIDs", "SetReturnKeyValueTags",
     "SetReturnLongDescription", "SetReturnMetadata", "SetReturnChildren",
     "SetReturnAdditionalPreviews", "SetReturnTotalOnly",
     "SetReturnPlaytimeStats", "SetLanguage", "SetAllowCachedResponse",
     "SetCloudFileNameFilter", "SetMatchAnyTag", "SetSearchText",
     "SetRankedByTrendDays", "AddRequiredKeyValueTag", "RequestUGCDetails",
     "CreateItem", "StartItemUpdate", "SetItemTitle", "SetItemDescription",
     "SetItemUpdateLanguage", "SetItemMetadata", "SetItemVisibility",
     "SetItemTags", "SetItemContent", "SetItemPreview",
     "RemoveItemKeyValueTags", "AddItemKeyValueTag", "AddItemPreviewFile",
     "AddItemPreviewVideo", "UpdateItemPreviewFile",
     "UpdateItemPreviewVideo", "RemoveItemPreview", "SubmitItemUpdate",
     "GetItemUpdateProgress", "SetUserItemVote", "GetUserItemVote",
     "AddItemToFavorites", "RemoveItemFromFavorites", "SubscribeItem",
     "UnsubscribeItem", "GetNumSubscribedItems", "GetSubscribedItems",
     "GetItemState", "GetItemInstallInfo", "GetItemDownloadInfo",
     "DownloadItem", "BInitWorkshopForGameServer", "SuspendDownloads",
     "StartPlaytimeTracking", "StopPlaytimeTracking",
     "StopPlaytimeTrackingForAllItems", "AddDependency", "RemoveDependency",
     "AddAppDependency", "RemoveAppDependency", "GetAppDependencies",
     "DeleteItem"
  >>

\* ISteamUGC, 67 methods (steam_api.cpp:1164): the methods in vtable order.
ISteamUGC_order_67 ==
  <<
     "CreateQueryUserUGCRequest", "CreateQueryAllUGCRequestPage",
     "CreateQueryUGCDetailsRequest", "SendQueryUGCRequest",
     "GetQueryUGCResult", "GetQueryUGCPreviewURL", "GetQueryUGCMetadata",
     "GetQueryUGCChildren", "GetQueryUGCStatistic",
     "GetQueryUGCNumAdditionalPreviews", "GetQueryUGCAdditionalPreview",
     "GetQueryUGCNumKeyValueTags", "GetQueryUGCKeyValueTag",
     "ReleaseQueryUGCRequest", "AddRequiredTag", "AddExcludedTag",
     "SetReturnOnlyIDs", "SetReturnKeyValueTags",
     "SetReturnLongDescription", "SetReturnMetadata", "SetReturnChildren",
     "SetReturnAdditionalPreviews", "SetReturnTotalOnly", "SetLanguage",
     "SetAllowCachedResponse", "SetCloudFileNameFilter", "SetMatchAnyTag",
     "SetSearchText", "SetRankedByTrendDays", "AddRequiredKeyValueTag",
     "RequestUGCDetails", "CreateItem", "StartItemUpdate", "SetItemTitle",
     "SetItemDescription", "SetItemUpdateLanguage", "SetItemMetadata",
     "SetItemVisibility", "SetItemTags", "SetItemContent", "SetItemPreview",
     "RemoveItemKeyValueTags", "AddItemKeyValueTag", "AddItemPreviewFile",
     "AddItemPreviewVideo", "UpdateItemPreviewFile",
     "UpdateItemPreviewVideo", "RemoveItemPreview", "SubmitItemUpdate",
     "GetItemUpdateProgress", "SetUserItemVote", "GetUserItemVote",
     "AddItemToFavorites", "RemoveItemFromFavorites", "SubscribeItem",
     "UnsubscribeItem", "GetNumSubscribedItems", "GetSubscribedItems",
     "GetItemState", "GetItemInstallInfo", "GetItemDownloadInfo",
     "DownloadItem", "BInitWorkshopForGameServer", "SuspendDownloads",
     "StartPlaytimeTracking", "StopPlaytimeTracking",
     "StopPlaytimeTrackingForAllItems"
  >>

\* ISteamUGC, 63 methods (steam_api.cpp:1234): the methods in vtable order.
ISteamUGC_order_63 ==
  <<
     "CreateQueryUserUGCRequest", "CreateQueryAllUGCRequestPage",
     "CreateQueryUGCDetailsRequest", "SendQueryUGCRequest",
     "GetQueryUGCResult", "GetQueryUGCPreviewURL", "GetQueryUGCMetadata",
     "GetQueryUGCChildren", "GetQueryUGCStatistic",
     "GetQueryUGCNumAdditionalPreviews", "GetQueryUGCAdditionalPreview",
     "GetQueryUGCNumKeyValueTags", "GetQueryUGCKeyValueTag",
     "ReleaseQueryUGCRequest", "AddRequiredTag", "AddExcludedTag",
     "SetReturnKeyValueTags", "SetReturnLongDescription",
     "SetReturnMetadata", "SetReturnChildren",
     "SetReturnAdditionalPreviews", "SetReturnTotalOnly", "SetLanguage",
     "SetAllowCachedResponse", "SetCloudFileNameFilter", "SetMatchAnyTag",
     "SetSearchText", "SetRankedByTrendDays", "AddRequiredKeyValueTag",
     "RequestUGCDetails", "CreateItem", "StartItemUpdate", "SetItemTitle",
     "SetItemDescription", "SetItemUpdateLanguage", "SetItemMetadata",
     "SetItemVisibility", "SetItemTags", "SetItemContent", "SetItemPreview",
     "RemoveItemKeyValueTags", "AddItemKeyValueTag", "AddItemPreviewFile",
     "AddItemPreviewVideo", "UpdateItemPreviewFile",
     "UpdateItemPreviewVideo", "RemoveItemPreview", "SubmitItemUpdate",
     "GetItemUpdateProgress", "SetUserItemVote", "GetUserItemVote",
     "AddItemToFavorites", "RemoveItemFromFavorites", "SubscribeItem",
     "UnsubscribeItem", "GetNumSubscribedItems", "GetSubscribedItems",
     "GetItemState", "GetItemInstallInfo", "GetItemDownloadInfo",
     "DownloadItem", "BInitWorkshopForGameServer", "SuspendDownloads"
  >>

\* ISteamUGC, 58 methods (steam_api.cpp:1300): the methods in vtable order.
ISteamUGC_order_58 ==
  <<
     "CreateQueryUserUGCRequest", "CreateQueryAllUGCRequestPage",
     "CreateQueryUGCDetailsRequest", "SendQueryUGCRequest",
     "GetQueryUGCResult", "GetQueryUGCPreviewURL", "GetQueryUGCMetadata",
     "GetQueryUGCChildren", "GetQueryUGCStatistic",
     "GetQueryUGCNumAdditionalPreviews", "GetQueryUGCAdditionalPreview",
     "GetQueryUGCNumKeyValueTags", "GetQueryUGCKeyValueTag",
     "ReleaseQueryUGCRequest", "AddRequiredTag", "AddExcludedTag",
     "SetReturnKeyValueTags", "SetReturnLongDescription",
     "SetReturnMetadata", "SetReturnChildren",
     "SetReturnAdditionalPreviews", "SetReturnTotalOnly", "SetLanguage",
     "SetAllowCachedResponse", "SetCloudFileNameFilter", "SetMatchAnyTag",
     "SetSearchText", "SetRankedByTrendDays", "AddRequiredKeyValueTag",
     "RequestUGCDetails", "CreateItem", "StartItemUpdate", "SetItemTitle",
     "SetItemDescription", "SetItemUpdateLanguage", "SetItemMetadata",
     "SetItemVisibility", "SetItemTags", "SetItemContent", "SetItemPreview",
     "RemoveItemKeyValueTags", "AddItemKeyValueTag", "SubmitItemUpdate",
     "GetItemUpdateProgress", "SetUserItemVote", "GetUserItemVote",
     "AddItemToFavorites", "RemoveItemFromFavorites", "SubscribeItem",
     "UnsubscribeItem", "GetNumSubscribedItems", "GetSubscribedItems",
     "GetItemState", "GetItemInstallInfo", "GetItemDownloadInfo",
     "DownloadItem", "BInitWorkshopForGameServer", "SuspendDownloads"
  >>

\* ISteamUGC, 46 methods (steam_api.cpp:1361): the methods in vtable order.
ISteamUGC_order_46 ==
  <<
     "CreateQueryUserUGCRequest", "CreateQueryAllUGCRequestPage",
     "CreateQueryUGCDetailsRequest", "SendQueryUGCRequest",
     "GetQueryUGCResult", "GetQueryUGCPreviewURL", "GetQueryUGCMetadata",
     "GetQueryUGCChildren", "GetQueryUGCStatistic",
     "GetQueryUGCNumAdditionalPreviews", "GetQueryUGCAdditionalPreview",
     "ReleaseQueryUGCRequest", "AddRequiredTag", "AddExcludedTag",
     "SetReturnLongDescription", "SetReturnMetadata", "SetReturnChildren",
     "SetReturnAdditionalPreviews", "SetReturnTotalOnly",
     "SetAllowCachedResponse", "SetCloudFileNameFilter", "SetMatchAnyTag",
     "SetSearchText", "SetRankedByTrendDays", "RequestUGCDetails",
     "CreateItem", "StartItemUpdate", "SetItemTitle", "SetItemDescription",
     "SetItemMetadata", "SetItemVisibility", "SetItemTags",
     "SetItemContent", "SetItemPreview", "SubmitItemUpdate",
     "GetItemUpdateProgress", "AddItemToFavorites",
     "RemoveItemFromFavorites", "SubscribeItem", "UnsubscribeItem",
     "GetNumSubscribedItems", "GetSubscribedItems", "GetItemState",
     "GetItemInstallInfo", "GetItemDownloadInfo", "DownloadItem"
  >>

\* ISteamUGC, 31 methods (steam_api.cpp:1410): the methods in vtable order.
ISteamUGC_order_31 ==
  <<
     "CreateQueryUserUGCRequest", "CreateQueryAllUGCRequestPage",
     "SendQueryUGCRequest", "GetQueryUGCResult", "ReleaseQueryUGCRequest",
     "AddRequiredTag", "AddExcludedTag", "SetReturnLongDescription",
     "SetReturnTotalOnly", "SetAllowCachedResponse",
     "SetCloudFileNameFilter", "SetMatchAnyTag", "SetSearchText",
     "SetRankedByTrendDays", "RequestUGCDetails", "CreateItem",
     "StartItemUpdate", "SetItemTitle", "SetItemDescription",
     "SetItemVisibility", "SetItemTags", "SetItemContent", "SetItemPreview",
     "SubmitItemUpdate", "GetItemUpdateProgress", "SubscribeItem",
     "UnsubscribeItem", "GetNumSubscribedItems", "GetSubscribedItems",
     "GetItemInstallInfo", "GetItemUpdateInfo"
  >>

\* ISteamUGC, 14 methods (steam_api.cpp:1445): the methods in vtable order.
ISteamUGC_order_14 ==
  <<
     "CreateQueryUserUGCRequest", "CreateQueryAllUGCRequestPage",
     "SendQueryUGCRequest", "GetQueryUGCResult", "ReleaseQueryUGCRequest",
     "AddRequiredTag", "AddExcludedTag", "SetReturnLongDescription",
     "SetReturnTotalOnly", "SetCloudFileNameFilter", "SetMatchAnyTag",
     "SetSearchText", "SetRankedByTrendDays", "RequestUGCDetails"
  >>

\* Shape records of ISteamUGC, in the order the if-chain tests them.
ISteamUGC_shapes ==
  <<
    [min_version |-> <<9, 60, 44, 10>>, num_methods |-> 96,
     order |-> Identity(96)],
    [min_version |-> <<8, 97, 99, 70>>, num_methods |-> 94,
     order |-> Identity(94)],
    [min_version |-> <<8, 33, 9, 23>>, num_methods |-> 90,
     order |-> OrderOf(ISteamUGC_m, ISteamUGC_order_90)],
    [min_version |-> <<7, 96, 0, 44>>, num_methods |-> 89,
     order |-> OrderOf(ISteamUGC_m, ISteamUGC_order_89)],
    [min_version |-> <<6, 91, 21, 57>>, num_methods |-> 86,
     order |-> OrderOf(ISteamUGC_m, ISteamUGC_order_86)],
    [min_version |-> <<6, 28, 18, 86>>, num_methods |-> 84,
     order |-> OrderOf(ISteamUGC_m, ISteamUGC_order_84)],
    [min_version |-> <<5, 53, 33, 78>>, num_methods |-> 79,
     order |-> OrderOf(ISteamUGC_m, ISteamUGC_order_79)],
    [min_version |-> <<5, 19, 38, 62>>, num_methods |-> 78,
     order |-> OrderOf(ISteamUGC_m, ISteamUGC_order_78)],
    [min_version |-> <<4, 95, 20, 30>>, num_methods |-> 76,
     order |-> OrderOf(ISteamUGC_m, ISteamUGC_order_76)],
    [min_version |-> <<3, 92, 72, 58>>, num_methods |-> 74,
     order |-> OrderOf(ISteamUGC_m, ISteamUGC_order_74)],
    [min_version |-> <<3, 62, 82, 82>>, num_methods |-> 67,
     order |-> OrderOf(ISteamUGC_m, ISteamUGC_order_67)],
    [min_version |-> <<3, 42, 61, 66>>, num_methods |-> 63,
     order |-> OrderOf(ISteamUGC_m, ISteamUGC_order_63)],
    [min_version |-> <<2, 89, 45, 4>>, num_methods |-> 58,
     order |-> OrderOf(ISteamUGC_m, ISteamUGC_order_58)],
    [min_version |-> <<2, 77, 37, 82>>, num_methods |-> 46,
     order |-> OrderOf(ISteamUGC_m, ISteamUGC_order_46)],
    [min_version |-> <<2, 19, 34, 93>>, num_methods |-> 31,
     order |-> OrderOf(ISteamUGC_m, ISteamUGC_order_31)],
    [min_version |-> <<0, 0, 0, 0>>, num_methods |-> 14,
     order |-> OrderOf(ISteamUGC_m, ISteamUGC_order_14)]
  >>

\* ISteamUser, 32 methods (steam_api.cpp:1476): the methods in vtable order.
ISteamUser_order_32 ==
  <<
     "GetHSteamUser", "BLoggedOn", "GetSteamID", "InitiateGameConnection",
     "TerminateGameConnection", "TrackAppUsageEvent", "GetUserDataFolder",
     "StartVoiceRecording", "StopVoiceRecording", "GetAvailableVoice",
     "GetVoice", "DecompressVoice", "GetVoiceOptimalSampleRate",
     "GetAuthSessionTicket", "BeginAuthSession", "EndAuthSession",
     "CancelAuthTicket", "UserHasLicenseForApp", "BIsBehindNAT",
     "AdvertiseGame", "RequestEncryptedAppTicket", "GetEncryptedAppTicket",
     "GetGameBadgeLevel", "GetPlayerSteamLevel", "RequestStoreAuthURL",
     "BIsPhoneVerified", "BIsTwoFactorEnabled", "BIsPhoneIdentifying",
     "BIsPhoneRequiringVerification", "GetMarketEligibility",
     "GetDurationControl", "BSetDurationControlOnlineState"
  >>

\* ISteamUser, 31 methods (steam_api.cpp:1511): the methods in vtable order.
ISteamUser_order_31 ==
  <<
     "GetHSteamUser", "BLoggedOn", "GetSteamID", "InitiateGameConnection",
     "TerminateGameConnection", "TrackAppUsageEvent", "GetUserDataFolder",
     "StartVoiceRecording", "StopVoiceRecording", "GetAvailableVoice",
     "GetVoice", "DecompressVoice", "GetVoiceOptimalSampleRate",
     "GetAuthSessionTicket", "BeginAuthSession", "EndAuthSession",
     "CancelAuthTicket", "UserHasLicenseForApp", "BIsBehindNAT",
     "AdvertiseGame", "RequestEncryptedAppTicket", "GetEncryptedAppTicket",
     "GetGameBadgeLevel", "GetPlayerSteamLevel", "RequestStoreAuthURL",
     "BIsPhoneVerified", "BIsTwoFactorEnabled", "BIsPhoneIdentifying",
     "BIsPhoneRequiringVerification", "GetMarketEligibility",
     "GetDurationControl"
  >>

\* ISteamUser, 29 methods (steam_api.cpp:1545): the methods in vtable order.
ISteamUser_order_29 ==
  <<
     "GetHSteamUser", "BLoggedOn", "GetSteamID", "InitiateGameConnection",
     "TerminateGameConnection", "TrackAppUsageEvent", "GetUserDataFolder",
     "StartVoiceRecording", "StopVoiceRecording", "GetAvailableVoice",
     "GetVoice", "DecompressVoice", "GetVoiceOptimalSampleRate",
     "GetAuthSessionTicket", "BeginAuthSession", "EndAuthSession",
     "CancelAuthTicket", "UserHasLicenseForApp", "BIsBehindNAT",
     "AdvertiseGame", "RequestEncryptedAppTicket", "GetEncryptedAppTicket",
     "GetGameBadgeLevel", "GetPlayerSteamLevel", "RequestStoreAuthURL",
     "BIsPhoneVerified", "BIsTwoFactorEnabled", "BIsPhoneIdentifying",
     "BIsPhoneRequiringVerification"
  >>

\* ISteamUser, 25 methods (steam_api.cpp:1577): the methods in vtable order.
ISteamUser_order_25 ==
  <<
     "GetHSteamUser", "BLoggedOn", "GetSteamID", "InitiateGameConnection",
     "TerminateGameConnection", "TrackAppUsageEvent", "GetUserDataFolder",
     "StartVoiceRecording", "StopVoiceRecording", "GetAvailableVoice",
     "GetVoice", "DecompressVoice", "GetVoiceOptimalSampleRate",
     "GetAuthSessionTicket", "BeginAuthSession", "EndAuthSession",
     "CancelAuthTicket", "UserHasLicenseForApp", "BIsBehindNAT",
     "AdvertiseGame", "RequestEncryptedAppTicket", "GetEncryptedAppTicket",
     "GetGameBadgeLevel", "GetPlayerSteamLevel", "RequestStoreAuthURL"
  >>

\* ISteamUser, 24 methods (steam_api.cpp:1605): the methods in vtable order.
ISteamUser_order_24 ==
  <<
     "GetHSteamUser", "BLoggedOn", "GetSteamID", "InitiateGameConnection",
     "TerminateGameConnection", "TrackAppUsageEvent", "GetUserDataFolder",
     "StartVoiceRecording", "StopVoiceRecording", "GetAvailableVoice",
     "GetVoice", "DecompressVoice", "GetVoiceOptimalSampleRate",
     "GetAuthSessionTicket", "BeginAuthSession", "EndAuthSession",
     "CancelAuthTicket", "UserHasLicenseForApp", "BIsBehindNAT",
     "AdvertiseGame", "RequestEncryptedAppTicket", "GetEncryptedAppTicket",
     "GetGameBadgeLevel", "GetPlayerSteamLevel"
  >>

\* ISteamUser, 22 methods (steam_api.cpp:1632): the methods in vtable order.
ISteamUser_order_22 ==
  <<
     "GetHSteamUser", "BLoggedOn", "GetSteamID", "InitiateGameConnection",
     "TerminateGameConnection", "TrackAppUsageEvent", "GetUserDataFolder",
     "StartVoiceRecording", "StopVoiceRecording", "GetAvailableVoice",
     "GetVoice", "DecompressVoice", "GetVoiceOptimalSampleRate",
     "GetAuthSessionTicket", "BeginAuthSession", "EndAuthSession",
     "CancelAuthTicket", "UserHasLicenseForApp", "BIsBehindNAT",
     "AdvertiseGame", "RequestEncryptedAppTicket", "GetEncryptedAppTicket"
  >>

\* ISteamUser, 21 methods (steam_api.cpp:1657): the methods in vtable order.
ISteamUser_order_21 ==
  <<
     "GetHSteamUser", "BLoggedOn", "GetSteamID", "InitiateGameConnection",
     "TerminateGameConnection", "TrackAppUsageEvent", "GetUserDataFolder",
     "StartVoiceRecording", "StopVoiceRecording", "GetAvailableVoice",
     "GetVoice", "DecompressVoice", "GetAuthSessionTicket",
     "BeginAuthSession", "EndAuthSession", "CancelAuthTicket",
     "UserHasLicenseForApp", "BIsBehindNAT", "AdvertiseGame",
     "RequestEncryptedAppTicket", "GetEncryptedAppTicket"
  >>

\* Shape records of ISteamUser, in the order the if-chain tests them.
ISteamUser_shapes ==
  <<
    [min_version |-> <<8, 2, 21, 95>>, num_methods |-> 33,
     order |-> Identity(33)],
    [min_version |-> <<5, 92, 36, 75>>, num_methods |-> 32,
     order |-> OrderOf(ISteamUser_m, ISteamUser_order_32)],
    [min_version |-> <<4, 95, 20, 30>>, num_methods |-> 31,
     order |-> OrderOf(ISteamUser_m, ISteamUser_order_31)],
    [min_version |-> <<3, 42, 61, 66>>, num_methods |-> 29,
     order |-> OrderOf(ISteamUser_m, ISteamUser_order_29)],
    [min_version |-> <<2, 59, 51, 43>>, num_methods |-> 25,
     order |-> OrderOf(ISteamUser_m, ISteamUser_order_25)],
    [min_version |-> <<1, 83, 31, 37>>, num_methods |-> 24,
     order |-> OrderOf(ISteamUser_m, ISteamUser_order_24)],
    [min_version |-> <<1, 6, 99, 61>>, num_methods |-> 22,
     order |-> OrderOf(ISteamUser_m, ISteamUser_order_22)],
    [min_version |-> <<0, 0, 0, 0>>, num_methods |-> 21,
     order |-> OrderOf(ISteamUser_m, ISteamUser_order_21)]
  >>

\* Shape records of ISteamUtils, in the order the if-chain tests them.
ISteamUtils_shapes ==
  <<
    [min_version |-> <<6, 6, 99, 59>>, num_methods |-> 39,
     order |-> Identity(39)],
    [min_version |-> <<3, 92, 72, 58>>, num_methods |-> 34,
     order |-> Identity(34)],
    [min_version |-> <<3, 42, 61, 66>>, num_methods |-> 28,
     order |-> Identity(28)],
    [min_version |-> <<2, 19, 34, 93>>, num_methods |-> 26,
     order |-> Identity(26)],
    [min_version |-> <<1, 83, 31, 37>>, num_methods |-> 25,
     order |-> Identity(25)],
    [min_version |-> <<0, 0, 0, 0>>, num_methods |-> 23,
     order |-> Identity(23)]
  >>

\* The interfaces in the order the wrapper sets them up.
IfaceOrder ==
  <<"ISteamApps", "ISteamMatchmaking", "ISteamMatchmakingServers",
    "ISteamUGC", "ISteamUser", "ISteamUtils">>

Ifaces == Range(IfaceOrder)

\* The _m enumeration of an interface.
Enum(I) ==
  CASE I = "ISteamApps" -> ISteamApps_m
    [] I = "ISteamMatchmaking" -> ISteamMatchmaking_m
    [] I = "ISteamMatchmakingServers" -> ISteamMatchmakingServers_m
    [] I = "ISteamUGC" -> ISteamUGC_m
    [] I = "ISteamUser" -> ISteamUser_m
    [] I = "ISteamUtils" -> ISteamUtils_m

\* The shape records of an interface.
Shapes(I) ==
  CASE I = "ISteamApps" -> ISteamApps_shapes
    [] I = "ISteamMatchmaking" -> ISteamMatchmaking_shapes
    [] I = "ISteamMatchmakingServers" -> ISteamMatchmakingServers_shapes
    [] I = "ISteamUGC" -> ISteamUGC_shapes
    [] I = "ISteamUser" -> ISteamUser_shapes
    [] I = "ISteamUtils" -> ISteamUtils_shapes

\* <Interface>_num_methods, the template argument max_num_methods of the
\* interface's wrapper_desc: the enumerator that follows the last method.
MaxNumMethods(I) == Len(Enum(I))

\* The chain written as independent ifs, without else: every record whose
\* threshold is <= v assigns in turn and the last record, which every
\* version reaches, wins.
ResolveNoElse(shapes, v) == shapes[Len(shapes)]

\* The if / else-if chain over ver: the first record whose threshold is
\* <= v; the last record is the final else.
Resolve(shapes, v) ==
  IF \E k \in 1..(Len(shapes) - 1) : VerGE(v, shapes[k].min_version)
    THEN shapes[CHOOSE k \in 1..(Len(shapes) - 1) :
                  /\ VerGE(v, shapes[k].min_version)
                  /\ \A j \in 1..(k - 1) : ~VerGE(v, shapes[j].min_version)]
    ELSE shapes[Len(shapes)]

\* ---------------------------------------------------------------------
\* Wrapper descriptors
\* ---------------------------------------------------------------------

\* A function pointer: an SDK method (fn = "sdk", slot = its position in the
\* SDK's table), one of the runtime's wrappers (fn = its name), or null.
Null == [fn |-> "null", slot |-> -1]
SdkFn(i) == [fn |-> "sdk", slot |-> i]
WrapperFn(name) == [fn |-> name, slot |-> -1]
Garbage(i) == [fn |-> "garbage", slot |-> i]

\* A default-constructed, zero-initialised wrapper_desc<max_num_methods>.
wrapper_desc(max_num_methods) ==
  [num_methods |-> 0,
   orig_vtable |-> "null",
   iface |-> "null",
   vtable |-> [i \in 0..(max_num_methods - 1) |-> Null],
   vm_idxs |-> [i \in 0..(max_num_methods - 1) |-> -1]]

\* The vm_idxs assignments counted from one instead of zero.
AssignIdxsOneBased(v, order) ==
  [id \in DOMAIN v |->
     IF \E k \in 1..Len(order) : order[k] = id
       THEN CHOOSE k \in 1..Len(order) : order[k] = id
       ELSE v[id]]

\* The vm_idxs assignments of a shape record applied to the array v.
AssignIdxs(v, order) ==
  [id \in DOMAIN v |->
     IF \E k \in 1..Len(order) : order[k] = id
       THEN (CHOOSE k \in 1..Len(order) : order[k] = id) - 1
       ELSE v[id]]

\* std::ranges::copy_n(ptr->vtable, n, desc.vtable.begin()), where ptr->vtable
\* designates the SDK's table ("sdk") or desc.vtable itself ("shadow").
CopyN(d, tbl, n) ==
  [i \in DOMAIN d.vtable |->
     IF i < n /\ tbl = "sdk" THEN SdkFn(i) ELSE d.vtable[i]]

\* Set up the descriptor d for an instance whose vtable pointer designates tbl:
\* <I>_desc.num_methods = ...; <I>_desc.orig_vtable = ptr->vtable;
\* <I>_desc.iface = ptr; copy_n(...); (ptr->vtable = desc.vtable.data() is
\* the update of inst_vtable in ShadowStep); the vm_idxs assignments.
ShadowDesc(d, shape, tbl) ==
  [num_methods |-> shape.num_methods,
   orig_vtable |-> tbl,
   iface |-> "inst",
   vtable |-> CopyN(d, tbl, shape.num_methods),
   vm_idxs |-> AssignIdxs(d.vm_idxs, shape.order)]

\* desc.vm_idxs[<I>_m_<name>]
Idx(ds, I, name) == ds[I].vm_idxs[EnumVal(Enum(I), name)]

\* desc.orig_vtable[idx]
OrigAt(d, idx) ==
  IF d.orig_vtable = "sdk"
    THEN IF idx >= 0 /\ idx < d.num_methods THEN SdkFn(idx) ELSE Garbage(idx)
  ELSE IF d.orig_vtable = "shadow" /\ idx \in DOMAIN d.vtable
    THEN d.vtable[idx]
  ELSE Garbage(idx)

\* desc.vtable[idx] = fn. The index is converted to std::size_t, so idx = -1
\* addresses the word in front of vtable[0], which is the iface field.
Store(d, idx, fn) ==
  IF idx \in DOMAIN d.vtable THEN [d EXCEPT !.vtable[idx] = fn]
  ELSE IF idx = -1 THEN [d EXCEPT !.iface = fn.fn]
  ELSE d

\* The wrapper's working state while it installs method wrappers:
\* descriptors (d), saved originals (o), the stores (w) and loads (r) made
\* so far, and whether a store went outside its array (bad).
\* desc.vtable[desc.vm_idxs[name]] = fn, unguarded.
Put(acc, I, name, fn) ==
  LET idx == Idx(acc.d, I, name) IN
  [acc EXCEPT !.d[I] = Store(@, idx, WrapperFn(fn)),
              !.w = @ \cup {[desc |-> I, idx |-> idx, fn |-> fn]},
              !.bad = @ \/ idx \notin DOMAIN acc.d[I].vtable]

\* idx = desc.vm_idxs[name]; if (idx >= 0) desc.vtable[idx] = fn;
PutIf(acc, I, name, fn) ==
  IF Idx(acc.d, I, name) >= 0 THEN Put(acc, I, name, fn) ELSE acc

\* <var> = desc.orig_vtable[desc.vm_idxs[name]]
SaveOrig(acc, I, name, var) ==
  LET idx == Idx(acc.d, I, name) IN
  [acc EXCEPT !.o[var] = OrigAt(acc.d[I], idx),
              !.r = @ \cup {[desc |-> I, idx |-> idx,
                             orig_set |-> acc.d[I].orig_vtable # "null",
                             num_methods |-> acc.d[I].num_methods]}]

\* The same load and store without the test of idx.
SaveAndPut(acc, I, name, var, fn) ==
  Put(SaveOrig(acc, I, name, var), I, name, fn)

\* if (idx >= 0) { <var> = desc.orig_vtable[idx]; desc.vtable[idx] = fn; }
SaveAndPutIf(acc, I, name, var, fn) ==
  IF Idx(acc.d, I, name) >= 0
    THEN Put(SaveOrig(acc, I, name, var), I, name, fn)
    ELSE acc

\* ---------------------------------------------------------------------
\* The host image and the import patcher
\* ---------------------------------------------------------------------

\* How many entries an import name table has at most.
MaxThunks == 2

\* How many descriptors the import directory has at most.
MaxDescs == 2

\* A name-table entry: an import by name or by ordinal.
ByName(n) == [ordinal |-> FALSE, name |-> n]
ByOrdinal == [ordinal |-> TRUE, name |-> ""]

\* The content of an address-table cell: the function the loader (or the
\* delay-load helper) bound the entry at this position to, or the wrapper.
Bound(i) == [fn |-> "bound", at |-> i]
Hooked == [fn |-> "SteamAPI_Init", at |-> 0]

\* A descriptor (IMAGE_IMPORT_DESCRIPTOR or IMAGE_DELAYLOAD_DESCRIPTOR) with
\* its module name, its name table and its address table.
Descriptor(module, names) ==
  [Name |-> module, names |-> names,
   cells |-> [i \in 1..Len(names) |-> Bound(i)]]

\* The letter-case normalisation of the module names that occur.
LowerCase(n) == IF n = "STEAM_API64.DLL" THEN "steam_api64.dll" ELSE n

\* std::ranges::find(descs, "steam_api64.dll", name projection): the position
\* of the first descriptor whose name equals the string, 0 for end().
FindDescriptor(ds) ==
  IF \E k \in 1..Len(ds) : ds[k].Name = "steam_api64.dll"
    THEN CHOOSE k \in 1..Len(ds) :
           /\ ds[k].Name = "steam_api64.dll"
           /\ \A j \in 1..(k - 1) : ds[j].Name # "steam_api64.dll"
    ELSE 0

\* Whether the loop over the import lookup table stops at entry e.
IltMatch(e) == ~e.ordinal /\ e.name = "SteamAPI_Init"

\* Whether the loop over the delay-load import name table stops at entry e.
\* It does not test IMAGE_ORDINAL_FLAG: for an import by ordinal it reads the
\* ordinal word as the RVA of a name (see WildRead); bytes found there do
\* not spell the symbol.
IntMatch(e) == e.name = "SteamAPI_Init"

\* The position of the first entry of names the loop stops at, 0 if it runs
\* to the terminating null entry; ilt tells the loop over the import lookup
\* table from the loop over the delay-load import name table.
FindThunk(names, ilt) ==
  LET Stops(k) == IF ilt THEN IltMatch(names[k]) ELSE IntMatch(names[k])
  IN IF \E k \in 1..Len(names) : Stops(k)
       THEN CHOOSE k \in 1..Len(names) :
              Stops(k) /\ \A j \in 1..(k - 1) : ~Stops(j)
       ELSE 0

\* thunk_ptr after the search of the regular import descriptors.
ImportThunk(img) ==
  LET k == FindDescriptor(img.imports)
      i == IF k = 0 THEN 0 ELSE FindThunk(img.imports[k].names, TRUE)
  IN IF i = 0 THEN [table |-> "none", desc |-> 0, cell |-> 0]
              ELSE [table |-> "imports", desc |-> k, cell |-> i]

\* thunk_ptr after the search of the delay-load descriptors.
DelayThunk(img) ==
  LET k == FindDescriptor(img.delays)
      i == IF k = 0 THEN 0 ELSE FindThunk(img.delays[k].names, FALSE)
  IN IF i = 0 THEN [table |-> "none", desc |-> 0, cell |-> 0]
              ELSE [table |-> "delays", desc |-> k, cell |-> i]

\* Whether the delay-load loop runs and comes to an import by ordinal, whose
\* AddressOfData (IMAGE_ORDINAL_FLAG | ordinal) it uses as an offset into the
\* image for a name.
WildRead(img) ==
  /\ ImportThunk(img).table = "none"
  /\ FindDescriptor(img.delays) # 0
  /\ LET names == img.delays[FindDescriptor(img.delays)].names
         stop == FindThunk(names, FALSE)
     IN \E k \in 1..Len(names) :
          names[k].ordinal /\ (stop = 0 \/ k < stop)

\* How a call of wrap_init can end: it returns ("done"), or the read at an
\* address outside the image raises an access violation ("fault").
WrapOutcomes(img) == IF WildRead(img) THEN {"done", "fault"} ELSE {"done"}

\* The delay-load search run without the test of thunk_ptr: what it finds
\* replaces what the search of the regular imports found.
ThunkPtrDelayLast(img) ==
  IF DelayThunk(img).table # "none" THEN DelayThunk(img) ELSE ImportThunk(img)

\* thunk_ptr at the end of wrap_init's search: the delay-load descriptors
\* are searched if (!thunk_ptr).
ThunkPtr(img) ==
  IF ImportThunk(img).table # "none" THEN ImportThunk(img) ELSE DelayThunk(img)

\* The store made as an exchange: a cell that already holds the wrapper
\* gets the import's own address back.
WrapInitExchange(img) ==
  LET t == ThunkPtr(img)
      Swap(c, i) == IF c = Hooked THEN Bound(i) ELSE Hooked
  IN IF t.table = "imports"
       THEN [img EXCEPT !.imports[t.desc].cells[t.cell] = Swap(@, t.cell)]
     ELSE IF t.table = "delays"
       THEN [img EXCEPT !.delays[t.desc].cells[t.cell] = Swap(@, t.cell)]
     ELSE img

\* wrap_init: if (thunk_ptr) *thunk_ptr = SteamAPI_Init;
WrapInit(img) ==
  LET t == ThunkPtr(img) IN
  IF t.table = "imports"
    THEN [img EXCEPT !.imports[t.desc].cells[t.cell] = Hooked]
  ELSE IF t.table = "delays"
    THEN [img EXCEPT !.delays[t.desc].cells[t.cell] = Hooked]
  ELSE img

\* The cell through which the host's own code calls SteamAPI_Init: the one
\* the linker emitted for its import of that symbol from steam_api64.dll
\* (module names are not case-sensitive for the loader).
HostCell(img) ==
  LET Hit(ds, k) == /\ LowerCase(ds[k].Name) = "steam_api64.dll"
                    /\ FindThunk(ds[k].names, TRUE) # 0
  IN IF \E k \in 1..Len(img.imports) : Hit(img.imports, k)
       THEN LET k == CHOOSE k \in 1..Len(img.imports) : Hit(img.imports, k)
            IN img.imports[k].cells[FindThunk(img.imports[k].names, TRUE)]
     ELSE IF \E k \in 1..Len(img.delays) : Hit(img.delays, k)
       THEN LET k == CHOOSE k \in 1..Len(img.delays) : Hit(img.delays, k)
            IN img.delays[k].cells[FindThunk(img.delays[k].names, TRUE)]
     ELSE [fn |-> "none", at |-> 0]

\* ---------------------------------------------------------------------
\* Inputs
\* ---------------------------------------------------------------------

Zero == <<0, 0, 0, 0>>

\* Every version word the wrapper compares ver with.
Thresholds ==
  UNION {{Shapes(I)[k].min_version : k \in 1..Len(Shapes(I))} : I \in Ifaces}
    \cup {<<8, 63, 11, 84>>, <<5, 25, 65, 21>>, max_supported_ver}

\* The version words the SDK file is drawn from: every threshold, the first
\* unsupported word and 0x0001000000000000.
Versions == Thresholds \cup {VerSucc(max_supported_ver), <<1, 0, 0, 0>>}

\* The version words shape resolution is examined on: in addition, the
\* words just below and just above every threshold.
AllVersions ==
  Versions \cup {VerPred(t) : t \in Thresholds \ {Zero}}
           \cup {VerSucc(t) : t \in Thresholds}

\* steam_api64.dll as installed: its version resource is readable
\* (rsrc = "ok") and holds ver, or the named call of the probe fails; and the
\* one interface request, if any, that this installation answers with null.
SdkFiles ==
  {[rsrc |-> "ok", ver |-> v, missing |-> m] :
     v \in Versions, m \in Ifaces \cup {"none", "ISteamClient"}}
    \cup {[rsrc |-> f, ver |-> Zero, missing |-> "none"] :
            f \in {"FindResourceW", "LoadResource", "LockResource",
                   "VerQueryValueW"}}

\* The settings documents g_settings.load() is drawn from. The per-title
\* members are read by settings_load_346110 only.
SettingsDocs ==
  {[app_id |-> 346110, spoof_app_id |-> s, auto_update_dlc |-> FALSE,
    dlc |-> <<>>, installed_dlc |-> {},
    show_be_servers |-> f[1], show_unavailable_servers |-> f[2],
    ws_dir_path |-> w] :
     s \in {0, 480}, f \in {<<TRUE, TRUE>>, <<FALSE, TRUE>>, <<TRUE, FALSE>>},
     w \in {"empty", "exists"}}
  \cup
  {[app_id |-> 2399830, spoof_app_id |-> 480, auto_update_dlc |-> TRUE,
    dlc |-> <<>>, installed_dlc |-> {},
    show_be_servers |-> FALSE, show_unavailable_servers |-> FALSE,
    ws_dir_path |-> "empty"],
   \* "dlc": {"731": "ab", "732": "c"}, "installed_dlc": [731, 733]
   [app_id |-> 730, spoof_app_id |-> 0, auto_update_dlc |-> FALSE,
    dlc |-> <<[id |-> 731, name |-> <<"a", "b">>],
              [id |-> 732, name |-> <<"c">>]>>,
    installed_dlc |-> {731, 733},
    show_be_servers |-> FALSE, show_unavailable_servers |-> FALSE,
    ws_dir_path |-> "empty"]}

\* A host image that imports SteamAPI_Init from steam_api64.dll.
ImgRegular ==
  [imports |-> <<Descriptor("kernel32.dll", <<ByName("ExitProcess")>>),
                 Descriptor("steam_api64.dll",
                            <<ByOrdinal, ByName("SteamAPI_Init")>>)>>,
   delays |-> <<>>]

\* The same image with the module name as some linkers write it.
ImgUpperCase ==
  [imports |-> <<Descriptor("STEAM_API64.DLL", <<ByName("SteamAPI_Init")>>)>>,
   delays |-> <<>>]

\* An image that delay-loads steam_api64.dll and imports from it by ordinal.
ImgDelayOrdinal ==
  [imports |-> <<Descriptor("kernel32.dll", <<ByName("ExitProcess")>>)>>,
   delays |-> <<Descriptor("steam_api64.dll",
                           <<ByOrdinal, ByName("SteamAPI_Shutdown")>>)>>]

MainImages == {ImgRegular, ImgUpperCase, ImgDelayOrdinal}

\* ---------------------------------------------------------------------
\* The process
\* ---------------------------------------------------------------------

Snapshot == [descs |-> descs, inst_vtable |-> inst_vtable, origs |-> origs]

OrigVars ==
  {"SteamApps_BIsSubscribedApp_orig", "SteamApps_BIsAppInstalled_orig",
   "SteamMatchmakingServers_RequestInternetServerList_orig",
   "SteamMatchmakingServers_ServerRules_orig",
   "SteamMatchmakingServers_CancelServerQuery_orig",
   "SteamUtils_IsAPICallCompleted_orig", "SteamUtils_GetAPICallResult_orig"}

\* A thread: the host's, the job thread of an item, or none.
HostThread == [t |-> "host", id |-> 0]
JobThread(i) == [t |-> "job", id |-> i]
NoThread == [t |-> "none", id |-> 0]

ItemIds == 1..MaxItems

\* No call of an ISteamApps method has been made.
NoCall ==
  [fn |-> "none", arg |-> 0, size |-> 0, ret |-> "none", count |-> 0,
   forwards |-> 0, orig_ret |-> "none", out_id |-> 0,
   out_available |-> "none", out_name |-> <<>>, elems |-> {}]

\* The host thread is in no ISteamUGC / ISteamUtils wrapper.
Idle ==
  [op |-> "idle", id |-> 0, at |-> "idle", emplaced |-> FALSE,
   asked |-> 0, max_entries |-> 0, total_copied |-> 0, ids |-> <<>>,
   seen_mods |-> <<>>, seen_ws_descs |-> {}, folder_size |-> 0,
   written |-> 0]

\* The statics of 346110.cpp and tek-steamclient.cpp after static
\* initialisation: empty containers, unlocked mutexes, am = nullptr.
\* update_dlc has not been called: no CM client, no request chain, no
\* tek_sc_cm_data_pics.
NoUpdate ==
  [main |-> "none", client |-> "none", destroys |-> 0, done |-> FALSE,
   chain |-> "none", data_pics |-> "none", data_frees |-> 0,
   app_entries |-> <<>>, entries |-> "none", entries_allocs |-> 0,
   entries_frees |-> 0,
   bad_delete |-> FALSE, saves |-> 0, added |-> <<>>]

\* DllMain has not been called.
NotAttached ==
  [load |-> "none", cb |-> "none", wrap_init_calls |-> 0,
   detach_res |-> "none", unload_calls |-> 0]

\* DllMain(DLL_PROCESS_ATTACH) has returned TRUE: the settings were loaded,
\* the per-title callback (cb: "absent" or "true") did not fail, wrap_init
\* was called.
Attached(cb) ==
  [NotAttached EXCEPT !.load = "ok", !.cb = cb, !.wrap_init_calls = 1]

\* RequestInternetServerList has not been called.
NoRequest ==
  [calls |-> 0, filters |-> <<>>, num_new_filters |-> 0, new_filters |-> <<>>,
   overrun |-> FALSE]

\* A server query ServerRules has not been called for.
NoQuery ==
  [sdk |-> "none", wrapper |-> "none", deletes |-> 0, cancels |-> 0,
   sent |-> <<>>, game |-> <<>>]

\* An EOS_Connect_Login call the host has not made.
NoLogin ==
  [phase |-> "none", spoof_at_call |-> 0, options |-> "none",
   ctx |-> "none", frees |-> 0, used_after_free |-> FALSE,
   creds |-> <<>>, connect_from |-> <<>>, connect_args |-> "none",
   delegate_data |-> <<>>]

InitRuntime ==
  /\ call = NoCall
  /\ ws_descs = [i \in ItemIds |-> "absent"]
  /\ mods = <<>>
  /\ mtx = [ws_descs_mtx |-> NoThread, mods_mtx |-> NoThread]
  /\ hpc = Idle
  /\ jobs = [i \in ItemIds |-> "none"]
  /\ am = FALSE
  /\ access = {}
  /\ mm = [q \in 1..MaxQueries |-> NoQuery]
  /\ eos = [force_egs_auth |-> FALSE, platform |-> FALSE,
            logins |-> [l \in 1..MaxLogins |-> NoLogin]]
  /\ list_req = NoRequest
  /\ cm = NoUpdate

\* The state of the process image before DllMain runs: statics are
\* zero-initialised, descriptors default-constructed.
InitProcess ==
  /\ attach_res = "none"
  /\ dllmain = NotAttached
  /\ settings = [app_id |-> 0, spoof_app_id |-> 0, auto_update_dlc |-> FALSE,
                 dlc |-> <<>>, installed_dlc |-> {}]
  /\ title = [show_be_servers |-> FALSE, show_unavailable_servers |-> FALSE,
              ws_dir_path |-> "empty", unavailable_dlc |-> <<>>]
  /\ loaded = FALSE
  /\ ver = Zero
  /\ ptrs = [I \in Ifaces |-> "null"]
  /\ inst_vtable = [I \in Ifaces |-> "sdk"]
  /\ descs = [I \in Ifaces |-> wrapper_desc(MaxNumMethods(I))]
  /\ origs = [v \in OrigVars |-> Null]
  /\ pc = "attach"
  /\ cur = 0
  /\ trace = <<>>
  /\ writes = {}
  /\ reads = {}
  /\ at_entry = Snapshot
  /\ init_calls = 0
  /\ real_inits = <<>>
  /\ result = "none"
  /\ InitRuntime

Init ==
  /\ image \in MainImages
  /\ sdk \in SdkFiles
  /\ InitProcess

\* DllMain(DLL_PROCESS_ATTACH): load the settings, run the per-title DllMain
\* callback, install the SteamAPI_Init hook.
DllMain ==
  /\ pc = "attach"
  /\ \/ \* g_settings.load() returned false
        /\ attach_res' = "FALSE"
        /\ pc' = "load_failed"
        /\ dllmain' = [dllmain EXCEPT !.load = "failed"]
        /\ UNCHANGED <<image, settings, title>>
     \/ \E doc \in SettingsDocs :
        \E cb_ok \in IF doc.app_id = 2399830 THEN BOOLEAN ELSE {TRUE} :
          /\ settings' = [app_id |-> doc.app_id,
                          spoof_app_id |-> doc.spoof_app_id,
                          auto_update_dlc |-> doc.auto_update_dlc,
                          dlc |-> doc.dlc,
                          installed_dlc |-> doc.installed_dlc]
          /\ title' = [show_be_servers |-> doc.show_be_servers,
                       show_unavailable_servers |->
                         doc.show_unavailable_servers,
                       ws_dir_path |-> doc.ws_dir_path,
                       unavailable_dlc |-> <<>>]
          /\ \E out \in IF cb_ok THEN WrapOutcomes(image) ELSE {"done"} :
               LET cb == IF doc.app_id # 2399830 THEN "absent"
                         ELSE IF cb_ok THEN "true" ELSE "false"
               IN
               IF ~cb_ok
                 THEN /\ image' = image
                      /\ attach_res' = "FALSE"
                      /\ pc' = "load_failed"
                      /\ dllmain' = [dllmain EXCEPT !.load = "ok",
                                                    !.cb = cb]
               ELSE IF out = "fault"
                 THEN /\ image' = image
                      /\ attach_res' = attach_res
                      /\ pc' = "crashed"
                      /\ dllmain' = [dllmain EXCEPT
                                       !.load = "ok", !.cb = cb,
                                       !.wrap_init_calls = @ + 1]
               ELSE /\ image' = WrapInit(image)
                    /\ attach_res' = "TRUE"
                    /\ pc' = "host"
                    /\ dllmain' = [dllmain EXCEPT
                                     !.load = "ok", !.cb = cb,
                                     !.wrap_init_calls = @ + 1]
  /\ UNCHANGED <<loaded, sdk, ver, ptrs, inst_vtable, descs, origs, cur,
                 trace, writes, reads, at_entry, init_calls, real_inits,
                 result>>
  /\ UNCHANGED <<call, ws_descs, mods, mtx, hpc, jobs, am, access, mm, eos,
                 list_req, cm>>

\* DllMain(DLL_PROCESS_DETACH), when the process ends or after an attach
\* that returned FALSE: steamclient::unload() runs, TRUE is returned.
DllMainDetach ==
  /\ pc \in {"host", "load_failed"}
  /\ pc' = "detached"
  /\ loaded' = FALSE
  /\ dllmain' = [dllmain EXCEPT !.unload_calls = @ + 1,
                                !.detach_res = "TRUE"]
  /\ UNCHANGED <<image, attach_res, settings, title, sdk, ver, ptrs,
                 inst_vtable, descs, origs, cur, trace, writes, reads,
                 at_entry, init_calls, real_inits, result>>
  /\ UNCHANGED <<call, ws_descs, mods, mtx, hpc, jobs, am, access, mm, eos,
                 list_req, cm>>

\* The host calls SteamAPI_Init through its import cell: the wrapper is
\* entered if the cell was patched, the SDK's function runs otherwise.
HostCallInit ==
  /\ pc = "host"
  /\ init_calls < MaxInitCalls
  /\ HostCell(image).fn # "none"
  /\ init_calls' = init_calls + 1
  /\ trace' = <<>>
  /\ real_inits' = <<>>
  /\ at_entry' = Snapshot
  /\ IF HostCell(image) = Hooked
       THEN /\ pc' = "real_init"
            /\ result' = "none"
       ELSE /\ pc' = "host"
            /\ \E r \in {"true", "false"} : result' = r
  /\ UNCHANGED <<image, attach_res, settings, title, loaded, sdk, ver, ptrs,
                 inst_vtable, descs, origs, cur, writes, reads>>
  /\ UNCHANGED rt_vars

\* The wrapper without the early return on a failed real SteamAPI_Init.
AlwaysProbe(res) == "probe"

\* if (!res) { display_error(...); return false; }: where the wrapper goes
\* once the real SteamAPI_Init has returned res.
AfterRealInit(res) == IF res THEN "probe" ELSE "host"

\* The retry with 480 made whatever application ID was configured.
RealInitsWithFallback(app_id, spoof_app_id, r1, r2) ==
  LET id == IF spoof_app_id # 0 THEN spoof_app_id ELSE app_id
  IN IF r1 THEN <<[id |-> id, ok |-> TRUE]>>
     ELSE <<[id |-> id, ok |-> FALSE], [id |-> 480, ok |-> r2]>>

\* The calls of the real SteamAPI_Init the wrapper makes, each with the
\* value of SteamAppId it is made under and what it returns: r1 and r2 are
\* what the first and the second call return.
RealInits(app_id, spoof_app_id, r1, r2) ==
  IF spoof_app_id # 0 THEN <<[id |-> spoof_app_id, ok |-> r1]>>
  ELSE IF r1 THEN <<[id |-> app_id, ok |-> TRUE]>>
  ELSE <<[id |-> app_id, ok |-> FALSE], [id |-> 480, ok |-> r2]>>

\* SteamAPI_Init, the calls of the real SteamAPI_Init.
Init_CallReal ==
  /\ pc = "real_init"
  /\ \E r1 \in BOOLEAN, r2 \in BOOLEAN :
       LET app_id == settings.app_id
           spoof_app_id == settings.spoof_app_id
           calls == RealInits(app_id, spoof_app_id, r1, r2)
           res == calls[Len(calls)].ok
       IN /\ real_inits' = calls
          /\ settings' =
               IF spoof_app_id # 0 \/ ~res THEN settings
               ELSE [settings EXCEPT !.spoof_app_id = calls[Len(calls)].id]
          /\ pc' = AfterRealInit(res)
          /\ result' = IF AfterRealInit(res) = "host" THEN "false" ELSE result
  /\ trace' = Append(trace, "real_init")
  /\ UNCHANGED <<image, attach_res, title, loaded, sdk, ver, ptrs,
                 inst_vtable, descs, origs, cur, writes, reads, at_entry,
                 init_calls>>
  /\ UNCHANGED rt_vars

\* The comparison written with >= : max_supported_ver itself is refused.
UnsupportedFromMax(v) == VerGE(v, max_supported_ver)

\* if (ver > max_supported_ver)
Unsupported(v) == VerLess(max_supported_ver, v)

\* SteamAPI_Init, the version probe and the check against max_supported_ver.
Init_Probe ==
  /\ pc = "probe"
  /\ trace' = Append(trace, "probe")
  /\ IF sdk.rsrc # "ok"
       THEN \* goto version_fail
            /\ ver' = ver
            /\ pc' = "host"
            /\ result' = "false"
       ELSE /\ ver' = sdk.ver
            /\ IF Unsupported(sdk.ver)
                 THEN /\ pc' = "host"
                      /\ result' = "false"
                 ELSE /\ pc' = "obtain"
                      /\ result' = result
  /\ UNCHANGED <<image, attach_res, settings, title, loaded, sdk, ptrs,
                 inst_vtable, descs, origs, cur, writes, reads, at_entry,
                 init_calls, real_inits>>
  /\ UNCHANGED rt_vars

\* Whether the wrapper takes the SteamInternal_CreateInterface path.
UsesSteamClient(v) == VerGE(v, <<3, 42, 61, 66>>)

\* SteamAPI_Init, obtaining the interface pointers. The SDK yields an
\* instance for every interface but sdk.missing; before SDK v1.26 the
\* wrapper does not ask for ISteamUGC. (From SDK v1.37 on, ISteamUGC is
\* requested while interface_ver still holds the ISteamClient version
\* string; what the SDK answers is covered by sdk.missing.)
Init_ObtainPtrs ==
  /\ pc = "obtain"
  /\ trace' = Append(trace, "obtain")
  /\ LET missing == sdk.missing IN
       IF UsesSteamClient(ver) /\ missing = "ISteamClient"
         THEN \* ISteamClient_ptr->vtable[12] through a null pointer
              /\ pc' = "crashed"
              /\ UNCHANGED <<ptrs, cur>>
         ELSE /\ ptrs' =
                   [I \in Ifaces |->
                      IF \/ I = missing
                         \/ /\ I = "ISteamUGC"
                            /\ ~UsesSteamClient(ver)
                            /\ ~VerGE(ver, <<1, 98, 31, 73>>)
                        THEN "null" ELSE "inst"]
              /\ pc' = "shadow"
              /\ cur' = 1
  /\ UNCHANGED <<image, attach_res, settings, title, loaded, sdk, ver,
                 inst_vtable, descs, origs, writes, reads, at_entry,
                 init_calls, real_inits, result>>
  /\ UNCHANGED rt_vars

\* SteamAPI_Init, "Setup interface wrappers based on current version", for
\* the interface IfaceOrder[cur]: resolve its shape, shadow its table.
ShadowStep ==
  /\ pc = "shadow"
  /\ trace' = Append(trace, "shadow")
  /\ LET I == IfaceOrder[cur]
         shape == Resolve(Shapes(I), ver)
         next == /\ pc' = IF cur = Len(IfaceOrder) THEN "install" ELSE "shadow"
                 /\ cur' = IF cur = Len(IfaceOrder) THEN 0 ELSE cur + 1
     IN IF ptrs[I] = "null" /\ I = "ISteamUGC"
          THEN \* if (ISteamUGC_ptr) { ... } is skipped
               /\ next
               /\ UNCHANGED <<descs, inst_vtable>>
        ELSE IF ptrs[I] = "null"
          THEN \* <I>_ptr->vtable through a null pointer
               /\ pc' = "crashed"
               /\ UNCHANGED <<descs, inst_vtable, cur>>
        ELSE /\ descs' = [descs EXCEPT
                            ![I] = ShadowDesc(@, shape, inst_vtable[I])]
             /\ inst_vtable' = [inst_vtable EXCEPT ![I] = "shadow"]
             /\ next
  /\ UNCHANGED <<image, attach_res, settings, title, loaded, sdk, ver, ptrs,
                 origs, writes, reads, at_entry, init_calls, real_inits,
                 result>>
  /\ UNCHANGED rt_vars

\* A load through desc.orig_vtable[desc.vm_idxs[name]] whose value is
\* called, not saved.
LoadOrig(acc, I, name) ==
  LET idx == Idx(acc.d, I, name) IN
  [acc EXCEPT !.r = @ \cup {[desc |-> I, idx |-> idx,
                             orig_set |-> acc.d[I].orig_vtable # "null",
                             num_methods |-> acc.d[I].num_methods]}]

Acc == [d |-> descs, o |-> origs, w |-> writes, r |-> reads, bad |-> FALSE]

\* "Setup common function wrappers", the ISteamApps wrappers.
InstallApps(acc) ==
  LET a2 == Put(acc, "ISteamApps", "BIsSubscribed", "SteamApps_BIsSubscribed")
      a3 == SaveOrig(a2, "ISteamApps", "BIsSubscribedApp",
                     "SteamApps_BIsSubscribedApp_orig")
      a4 == Put(a3, "ISteamApps", "BIsSubscribedApp",
                "SteamApps_BIsSubscribedApp")
      a5 == Put(a4, "ISteamApps", "BIsDlcInstalled",
                "SteamApps_BIsDlcInstalled")
      a6 == PutIf(a5, "ISteamApps", "BIsSubscribedFromFreeWeekend",
                  "SteamApps_BIsSubscribedFromFreeWeekend")
      a7 == PutIf(a6, "ISteamApps", "GetDLCCount", "SteamApps_GetDLCCount")
      a8 == PutIf(a7, "ISteamApps", "BGetDLCDataByIndex",
                  "SteamApps_BGetDLCDataByIndex")
      a9 == SaveAndPutIf(a8, "ISteamApps", "BIsAppInstalled",
                         "SteamApps_BIsAppInstalled_orig",
                         "SteamApps_BIsAppInstalled")
      a10 == PutIf(a9, "ISteamApps", "GetAppOwner", "SteamApps_GetAppOwner")
      a11 == PutIf(a10, "ISteamApps", "BIsSubscribedFromFamilySharing",
                   "SteamApps_BIsSubscribedFromFamilySharing")
  IN PutIf(a11, "ISteamApps", "BIsTimedTrial", "SteamApps_BIsTimedTrial")

\* The ISteamUser wrapper alone: the ISteamUtils store is left out.
InstallUserOnly(acc) ==
  Put(acc, "ISteamUser", "UserHasLicenseForApp",
      "SteamUser_UserHasLicenseForApp")

\* "Setup common function wrappers", the ISteamUser and ISteamUtils wrappers.
InstallUserUtils(acc) ==
  Put(Put(acc, "ISteamUser", "UserHasLicenseForApp",
          "SteamUser_UserHasLicenseForApp"),
      "ISteamUtils", "GetAppID", "SteamUtils_GetAppID")

\* "Get current user Steam ID" and "Setup common function wrappers".
InstallCommon(acc) ==
  InstallUserUtils(InstallApps(LoadOrig(acc, "ISteamUser", "GetSteamID")))

\* The outcomes of a step that stored through an index outside its array:
\* the store lands in the neighbouring field, or a checked build aborts.
Outcomes(acc) == IF acc.bad THEN {"stored", "abort"} ELSE {"stored"}

\* steamclient::load() returns at once when the library is loaded; otherwise
\* it may or may not succeed.
LoadResults(called) == IF called /\ ~loaded THEN BOOLEAN ELSE {loaded}

\* SteamAPI_Init, from "Get current user Steam ID" to the DLC update. A
\* checked build terminates the process at the first store outside an array.
Init_InstallCommon ==
  /\ pc = "install"
  /\ trace' = Append(trace, "install")
  /\ LET acc == InstallCommon(Acc) IN
     \E out \in Outcomes(acc), l \in LoadResults(settings.auto_update_dlc) :
       IF out = "abort"
         THEN /\ pc' = "crashed"
              /\ UNCHANGED <<descs, origs, writes, reads, loaded>>
         ELSE /\ descs' = acc.d
              /\ origs' = acc.o
              /\ writes' = acc.w
              /\ reads' = acc.r
              /\ loaded' = l
              /\ pc' = "game_cb"
  /\ UNCHANGED <<image, attach_res, settings, title, sdk, ver, ptrs,
                 inst_vtable, cur, at_entry, init_calls, real_inits, result>>
  /\ UNCHANGED rt_vars

\* The maps steam_api_init_346110 asks ISteamApps::BIsSubscribedApp about,
\* one group of maps per DLC application, in the order it asks.
DlcMaps ==
  <<<<"TheCenter">>, <<"ScorchedEarth">>, <<"Ragnarok">>, <<"Aberration">>,
    <<"Extinction">>, <<"Valguero_P">>, <<"Genesis", "Gen2">>,
    <<"CrystalIsles">>, <<"LostIsland">>, <<"Fjordur">>, <<"Aquatica">>>>

\* The maps emplaced into unavailable_dlc when the account owns the DLC
\* applications in owned, of the first n applications.
RECURSIVE Unowned(_, _)
Unowned(owned, n) ==
  IF n = 0 THEN <<>>
  ELSE Unowned(owned, n - 1) \o (IF n \in owned THEN <<>> ELSE DlcMaps[n])

\* What BIsSubscribedApp may answer: the sets of owned DLC applications, one
\* set where steam_api_init_346110 does not ask.
Ownerships ==
  IF /\ settings.app_id = 346110
     /\ ~title.show_unavailable_servers
     /\ settings.spoof_app_id = 346110
    THEN SUBSET (1..MaxDlc)
    ELSE {1..MaxDlc}

\* steam_api_init_346110, the ISteamMatchmakingServers part.
Setup346110Servers(acc) ==
  IF ~title.show_be_servers \/ ~title.show_unavailable_servers
    THEN LET a0 == IF /\ ~title.show_unavailable_servers
                      /\ settings.spoof_app_id = 346110
                     THEN LoadOrig(acc, "ISteamApps", "BIsSubscribedApp")
                     ELSE acc
             a1 == SaveOrig(a0, "ISteamMatchmakingServers",
                     "RequestInternetServerList",
                     "SteamMatchmakingServers_RequestInternetServerList_orig")
             a2 == Put(a1, "ISteamMatchmakingServers",
                     "RequestInternetServerList",
                     "SteamMatchmakingServers_RequestInternetServerList")
             a3 == SaveOrig(a2, "ISteamMatchmakingServers", "ServerRules",
                     "SteamMatchmakingServers_ServerRules_orig")
             a4 == Put(a3, "ISteamMatchmakingServers", "ServerRules",
                     "SteamMatchmakingServers_ServerRules")
         IN SaveOrig(a4, "ISteamMatchmakingServers", "CancelServerQuery",
                     "SteamMatchmakingServers_CancelServerQuery_orig")
    ELSE acc

\* steam_api_init_346110, the ISteamUGC and ISteamUtils part; l is
\* steamclient::loaded after the optional steamclient::load(). A workshop
\* directory that exists holds no item directory, so the initial mod list
\* is empty and mods is left as it is.
Setup346110Workshop(acc, l) ==
  IF settings.spoof_app_id # 346110
    THEN LET a1 == Put(acc, "ISteamUGC", "GetNumSubscribedItems",
                       "SteamUGC_GetNumSubscribedItems")
             a2 == Put(a1, "ISteamUGC", "GetSubscribedItems",
                       "SteamUGC_GetSubscribedItems")
             a3 == Put(a2, "ISteamUGC", "GetItemInstallInfo",
                       "SteamUGC_GetItemInstallInfo")
         IN IF title.ws_dir_path # "empty" /\ l
              THEN LET a4 == Put(a3, "ISteamUGC", "SubscribeItem",
                                 "SteamUGC_SubscribeItem")
                       a5 == Put(a4, "ISteamUGC", "GetItemUpdateInfo",
                                 "SteamUGC_GetItemUpdateInfo")
                       a6 == SaveOrig(a5, "ISteamUtils", "IsAPICallCompleted",
                                 "SteamUtils_IsAPICallCompleted_orig")
                       a7 == Put(a6, "ISteamUtils", "IsAPICallCompleted",
                                 "SteamUtils_IsAPICallCompleted")
                       a8 == SaveOrig(a7, "ISteamUtils", "GetAPICallResult",
                                 "SteamUtils_GetAPICallResult_orig")
                   IN Put(a8, "ISteamUtils", "GetAPICallResult",
                          "SteamUtils_GetAPICallResult")
              ELSE a3
    ELSE acc

steam_api_init_346110(acc, l) ==
  Setup346110Workshop(Setup346110Servers(acc), l)

\* get_steam_api_init_cb() and the callback's effect on the descriptors;
\* steam_api_init_2399830 only formats steam_id.
GameCb(acc, l) ==
  IF settings.app_id = 346110 THEN steam_api_init_346110(acc, l) ELSE acc

\* SteamAPI_Init, "Perform game-specific setup", and return true.
Init_GameCb ==
  /\ pc = "game_cb"
  /\ trace' = Append(trace, "game_cb")
  /\ \E l \in LoadResults(/\ settings.app_id = 346110
                          /\ settings.spoof_app_id # 346110
                          /\ title.ws_dir_path = "exists") :
       LET acc == GameCb(Acc, l) IN
       \E out \in Outcomes(acc), owned \in Ownerships :
         IF out = "abort"
           THEN /\ pc' = "crashed"
                /\ UNCHANGED <<title, descs, origs, writes, reads, loaded,
                               result>>
           ELSE /\ title' = [title EXCEPT !.unavailable_dlc =
                                            @ \o Unowned(owned, MaxDlc)]
                /\ descs' = acc.d
                /\ origs' = acc.o
                /\ writes' = acc.w
                /\ reads' = acc.r
                /\ loaded' = l
                /\ pc' = "host"
                /\ result' = "true"
  /\ UNCHANGED <<image, attach_res, settings, sdk, ver, ptrs,
                 inst_vtable, cur, at_entry, init_calls, real_inits>>
  /\ UNCHANGED rt_vars

Next ==
  \/ DllMain
  \/ HostCallInit
  \/ Init_CallReal
  \/ Init_Probe
  \/ Init_ObtainPtrs
  \/ ShadowStep
  \/ Init_InstallCommon
  \/ Init_GameCb

Spec == Init /\ [][Next]_vars

\* The process from its attach to its detach.
AttachNext ==
  \/ Next
  \/ DllMainDetach

AttachSpec == Init /\ [][AttachNext]_vars

\* ---------------------------------------------------------------------
\* The import patcher on generated images
\* ---------------------------------------------------------------------

\* The name tables of at most n entries drawn from entries; a linker emits
\* one entry per imported symbol, so SteamAPI_Init is named at most once.
Tables(entries, n) ==
  {t \in UNION {[1..k -> entries] : k \in 1..n} :
     Cardinality({i \in DOMAIN t : t[i] = ByName("SteamAPI_Init")}) <= 1}

\* Import lookup tables hold imports by name and by ordinal.
ImportTables ==
  Tables({ByName("SteamAPI_Init"), ByName("SteamAPI_Shutdown"), ByOrdinal},
         MaxThunks)

\* Delay-load import name tables hold imports by name and by ordinal too.
DelayTables == Tables({ByOrdinal, ByName("SteamAPI_Init")}, MaxThunks)

ModuleNames == {"kernel32.dll", "steam_api64.dll", "user32.dll"}

\* A directory lists each module once.
ModuleSeqs ==
  {s \in UNION {[1..k -> ModuleNames] : k \in 0..MaxDescs} :
     \A i \in DOMAIN s, j \in DOMAIN s : s[i] = s[j] => i = j}

\* The directories whose steam_api64.dll descriptor, if any, has one of the
\* given name tables; every other module imports a symbol of the same name.
Directories(tables) ==
  {[k \in DOMAIN s |->
      Descriptor(s[k], IF s[k] = "steam_api64.dll"
                         THEN t ELSE <<ByName("SteamAPI_Init")>>)] :
     s \in ModuleSeqs, t \in tables}

PatchImages ==
  {[imports |-> i, delays |-> d] :
     i \in Directories(ImportTables), d \in Directories(DelayTables)}

PatchInit ==
  /\ image \in PatchImages
  /\ sdk = [rsrc |-> "ok", ver |-> max_supported_ver, missing |-> "none"]
  /\ InitProcess

\* wrap_init() on its own, called any number of times.
wrap_init ==
  /\ pc \in {"attach", "patched", "repatched"}
  /\ \E out \in WrapOutcomes(image) :
       IF out = "fault"
         THEN image' = image /\ pc' = "crashed"
         ELSE /\ image' = WrapInit(image)
              /\ pc' = IF pc = "attach" THEN "patched" ELSE "repatched"
  /\ UNCHANGED <<attach_res, settings, title, loaded, sdk, ver, ptrs,
                 inst_vtable, descs, origs, cur, trace, writes, reads,
                 at_entry, init_calls, real_inits, result>>
  /\ UNCHANGED rt_vars

PatchNext == wrap_init

PatchSpec == PatchInit /\ [][PatchNext]_vars

\* ---------------------------------------------------------------------
\* Shape resolution on every boundary version
\* ---------------------------------------------------------------------

\* The wrapper right after the version check has accepted sdk.ver, for every
\* version word at, just below and just above a threshold.
ResolveInit ==
  /\ image = WrapInit(ImgRegular)
  /\ attach_res = "TRUE"
  /\ dllmain = Attached("absent")
  /\ settings = [app_id |-> 730, spoof_app_id |-> 730,
                 auto_update_dlc |-> FALSE, dlc |-> <<>>,
                 installed_dlc |-> {}]
  /\ title = [show_be_servers |-> FALSE, show_unavailable_servers |-> FALSE,
              ws_dir_path |-> "empty", unavailable_dlc |-> <<>>]
  /\ loaded = FALSE
  /\ sdk \in {[rsrc |-> "ok", ver |-> v, missing |-> m] :
                v \in {w \in AllVersions : ~Unsupported(w)},
                m \in {"none", "ISteamUGC"}}
  /\ ver = sdk.ver
  /\ ptrs = [I \in Ifaces |-> "null"]
  /\ inst_vtable = [I \in Ifaces |-> "sdk"]
  /\ descs = [I \in Ifaces |-> wrapper_desc(MaxNumMethods(I))]
  /\ origs = [v \in OrigVars |-> Null]
  /\ pc = "obtain"
  /\ cur = 0
  /\ trace = <<"real_init", "probe">>
  /\ writes = {}
  /\ reads = {}
  /\ at_entry = Snapshot
  /\ init_calls = 1
  /\ real_inits = <<[id |-> 730, ok |-> TRUE]>>
  /\ result = "none"
  /\ InitRuntime

ResolveNext ==
  \/ Init_ObtainPtrs
  \/ ShadowStep

ResolveSpec == ResolveInit /\ [][ResolveNext]_vars

\* ---------------------------------------------------------------------
\* The host's calls of the wrapped ISteamApps methods
\* ---------------------------------------------------------------------

\* The application IDs the host asks about.
AppIdArgs == {346110, 730, 731, 732, 733, 999}

\* The name buffer sizes the host passes.
NameBufSizes == {0, 2}

\* std::ranges::contains(g_settings.steam->dlc | std::views::elements<0>, id)
InDlc(id) == \E k \in 1..Len(settings.dlc) : settings.dlc[k].id = id

\* The host calls method name of interface I through the instance's table
\* and reaches the interception function fn.
Reaches(I, name, fn) ==
  /\ pc = "host"
  /\ inst_vtable[I] = "shadow"
  /\ Idx(descs, I, name) >= 0
  /\ descs[I].vtable[Idx(descs, I, name)] = WrapperFn(fn)

\* if (<own>) return true; return <orig_var>(iface, app_id); in the function
\* fn. A saved pointer that designates fn itself is called again and again:
\* the call never returns (the stack runs out, or the tail call loops).
WrapAndForward(fn, orig_var, app_id, own) ==
  LET c == [NoCall EXCEPT !.fn = fn, !.arg = app_id] IN
  IF own
    THEN /\ call' = [c EXCEPT !.ret = "true"]
         /\ pc' = pc
  ELSE IF origs[orig_var].fn = "sdk"
    THEN /\ \E r \in {"true", "false"} :
              call' = [c EXCEPT !.forwards = 1, !.orig_ret = r, !.ret = r]
         /\ pc' = pc
  ELSE IF origs[orig_var] = WrapperFn(fn)
    THEN /\ call' = [c EXCEPT !.forwards = 2]
         /\ pc' \in {"crashed", "hung"}
  ELSE /\ call' = c
       /\ pc' = "crashed"

\* ISteamApps::BIsSubscribedApp called by the host.
SteamApps_BIsSubscribedApp ==
  /\ Reaches("ISteamApps", "BIsSubscribedApp",
             "SteamApps_BIsSubscribedApp")
  /\ \E app_id \in AppIdArgs :
       WrapAndForward("SteamApps_BIsSubscribedApp",
                      "SteamApps_BIsSubscribedApp_orig", app_id,
                      app_id = settings.app_id \/ InDlc(app_id))
  /\ UNCHANGED <<image, attach_res, settings, title, loaded, sdk, ver, ptrs,
                 inst_vtable, descs, origs, cur, trace, writes, reads,
                 at_entry, init_calls, real_inits, result, ws_descs, mods,
                 mtx, hpc, jobs, am, access, mm,
                 eos, list_req, dllmain, cm>>

\* ISteamApps::BIsAppInstalled called by the host.
SteamApps_BIsAppInstalled ==
  /\ Reaches("ISteamApps", "BIsAppInstalled", "SteamApps_BIsAppInstalled")
  /\ \E app_id \in AppIdArgs :
       WrapAndForward("SteamApps_BIsAppInstalled",
                      "SteamApps_BIsAppInstalled_orig", app_id,
                      \/ app_id = settings.app_id
                      \/ app_id \in settings.installed_dlc)
  /\ UNCHANGED <<image, attach_res, settings, title, loaded, sdk, ver, ptrs,
                 inst_vtable, descs, origs, cur, trace, writes, reads,
                 at_entry, init_calls, real_inits, result, ws_descs, mods,
                 mtx, hpc, jobs, am, access, mm,
                 eos, list_req, dllmain, cm>>

\* ISteamApps::GetDLCCount called by the host.
SteamApps_GetDLCCount ==
  /\ Reaches("ISteamApps", "GetDLCCount", "SteamApps_GetDLCCount")
  /\ call' = [NoCall EXCEPT !.fn = "SteamApps_GetDLCCount",
                            !.count = Len(settings.dlc)]
  /\ UNCHANGED <<image, attach_res, settings, title, loaded, sdk, ver, ptrs,
                 inst_vtable, descs, origs, pc, cur, trace, writes, reads,
                 at_entry, init_calls, real_inits, result, ws_descs, mods,
                 mtx, hpc, jobs, am, access, mm,
                 eos, list_req, dllmain, cm>>

\* name_buf[name.copy(name_buf, name_buf_size - 1)] = '\\0': the characters
\* in front of the terminator.
CopyName(name, name_buf_size) ==
  IF Len(name) <= name_buf_size - 1 THEN name
  ELSE SubSeq(name, 1, name_buf_size - 1)

\* What g_settings.steam->dlc[idx] yields: the element, or for an index
\* that the vector does not hold whatever lies behind its elements.
DlcAt(idx) ==
  IF idx + 1 \in 1..Len(settings.dlc) THEN settings.dlc[idx + 1]
  ELSE [id |-> 0, name |-> <<>>]

\* if (idx < static_cast<int>(g_settings.steam->dlc.size())) return false;
RefusesIdx(idx, size) == idx < size

\* ISteamApps::BGetDLCDataByIndex called by the host. The read of an
\* element the vector does not hold yields garbage or faults.
SteamApps_BGetDLCDataByIndex ==
  /\ Reaches("ISteamApps", "BGetDLCDataByIndex",
             "SteamApps_BGetDLCDataByIndex")
  /\ \E idx \in (-1)..(Len(settings.dlc) + 1),
        name_buf_size \in NameBufSizes :
       LET c == [NoCall EXCEPT !.fn = "SteamApps_BGetDLCDataByIndex",
                               !.arg = idx, !.size = name_buf_size]
           e == DlcAt(idx)
       IN IF RefusesIdx(idx, Len(settings.dlc))
            THEN /\ call' = [c EXCEPT !.ret = "false"]
                 /\ pc' = pc
          ELSE \/ /\ call' =
                       [c EXCEPT !.ret = "true", !.elems = {idx},
                                 !.out_id = e.id, !.out_available = "true",
                                 !.out_name =
                                   IF name_buf_size > 0
                                     THEN CopyName(e.name, name_buf_size)
                                     ELSE <<>>]
                  /\ pc' = pc
               \/ /\ idx + 1 \notin 1..Len(settings.dlc)
                  /\ call' = [c EXCEPT !.elems = {idx}]
                  /\ pc' = "crashed"
  /\ UNCHANGED <<image, attach_res, settings, title, loaded, sdk, ver, ptrs,
                 inst_vtable, descs, origs, cur, trace, writes, reads,
                 at_entry, init_calls, real_inits, result, ws_descs, mods,
                 mtx, hpc, jobs, am, access, mm,
                 eos, list_req, dllmain, cm>>

\* One host image and two SDK versions, followed from process start
\* through the host's calls of SteamAPI_Init to its calls of the wrapped
\* ISteamApps methods.
CallInit ==
  /\ image = ImgRegular
  /\ sdk \in {[rsrc |-> "ok", ver |-> v, missing |-> "none"] :
                v \in {max_supported_ver, <<1, 30, 50, 46>>}}
  /\ InitProcess

CallNext ==
  \/ Next
  \/ SteamApps_BIsSubscribedApp
  \/ SteamApps_BIsAppInstalled
  \/ SteamApps_GetDLCCount
  \/ SteamApps_BGetDLCDataByIndex

CallSpec == CallInit /\ [][CallNext]_vars

\* ---------------------------------------------------------------------
\* Steam Workshop downloads of title 346110: the host thread in the
\* ISteamUGC / ISteamUtils wrappers, one job thread per item
\* ---------------------------------------------------------------------

boot_vars == <<image, attach_res, settings, title, loaded, sdk, ver, ptrs,
               inst_vtable, descs, origs, pc, cur, trace, writes, reads,
               at_entry, init_calls, real_inits, result, mm, eos,
               list_req, dllmain, cm>>

\* A read or write of ws_descs (the table, or the pointer inside an
\* entry) or of mods by thread t, and whether t holds the object's mutex.
Access(t, obj, part, kind) ==
  [thread |-> t, obj |-> obj, part |-> part, kind |-> kind,
   held |-> IF obj = "mods" THEN mtx.mods_mtx = t ELSE mtx.ws_descs_mtx = t]

\* The mutexes when m is not released.
unlock_skipped(m) == mtx

\* The mutexes after m is released: ws_descs_mtx.unlock(), or the end of
\* the block that holds the std::scoped_lock.
unlock(m) == [mtx EXCEPT ![m] = NoThread]

\* The mutexes when mods_mtx is kept past the block that locked it.
mods_mtx_kept == mtx

\* The mutexes at the end of a block that holds
\* const std::scoped_lock lock{mods_mtx}.
release_mods_mtx == [mtx EXCEPT !.mods_mtx = NoThread]

\* The host thread enters wrapper op and takes mutex m.
HostLock(op, id, m) ==
  /\ hpc = Idle
  /\ mtx[m] = NoThread
  /\ mtx' = [mtx EXCEPT ![m] = HostThread]
  /\ hpc' = [Idle EXCEPT !.op = op, !.id = id, !.at = "locked"]
  /\ access' = {}

\* How install_workshop_item can end: am_create fails and it returns
\* false; or the application manager exists and _beginthreadex starts
\* ws_job_proc or fails.
install_workshop_item ==
  (IF am THEN {} ELSE {[am |-> FALSE, thread |-> FALSE]})
    \cup {[am |-> TRUE, thread |-> t] : t \in BOOLEAN}

\* ISteamUGC::SubscribeItem called by the host.
SteamUGC_SubscribeItem ==
  /\ Reaches("ISteamUGC", "SubscribeItem", "SteamUGC_SubscribeItem")
  /\ \/ \* ws_descs_mtx.lock();
        /\ Len(mods) < MaxMods
        /\ \E id \in ItemIds : HostLock("SubscribeItem", id, "ws_descs_mtx")
        /\ UNCHANGED <<ws_descs, jobs, am>>
     \/ \* ws_descs.try_emplace(id); ws_descs_mtx.unlock();
        /\ hpc.op = "SubscribeItem" /\ hpc.at = "locked"
        /\ ws_descs' = [ws_descs EXCEPT
                          ![hpc.id] = IF @ = "absent" THEN "null" ELSE @]
        /\ access' = {Access(HostThread, "ws_descs", "table", "write")}
        /\ mtx' = unlock("ws_descs_mtx")
        /\ hpc' = [hpc EXCEPT !.at = "unlocked",
                              !.emplaced = ws_descs[hpc.id] = "absent"]
        /\ UNCHANGED <<jobs, am>>
     \/ \* if (emplaced) install_workshop_item(...); return id;
        /\ hpc.op = "SubscribeItem" /\ hpc.at = "unlocked"
        /\ IF hpc.emplaced
             THEN \E out \in install_workshop_item :
                    /\ am' = out.am
                    /\ jobs' = IF out.thread
                                 THEN [jobs EXCEPT ![hpc.id] = "start"]
                                 ELSE jobs
             ELSE UNCHANGED <<jobs, am>>
        /\ hpc' = Idle
        /\ access' = {}
        /\ UNCHANGED <<ws_descs, mtx>>
  /\ UNCHANGED <<boot_vars, call, mods>>

\* The body of a wrapper that looks id up in ws_descs under the lock the
\* host thread took, reads the pointer of the entry it finds, and returns.
FindUnderLock(op) ==
  /\ hpc.op = op /\ hpc.at = "locked"
  /\ access' =
       {Access(HostThread, "ws_descs", "table", "read")}
         \cup (IF ws_descs[hpc.id] # "absent"
                 THEN {Access(HostThread, "ws_descs", "entry", "read")}
                 ELSE {})
  /\ mtx' = [mtx EXCEPT !.ws_descs_mtx = NoThread]
  /\ hpc' = Idle

\* The body of a wrapper of ISteamUtils that answers for a call handle
\* found in ws_descs and leaves the block of the lock to pass any other
\* handle to the SDK.
FindOrForward(op) ==
  /\ hpc.op = op /\ hpc.at = "locked"
  /\ access' =
       {Access(HostThread, "ws_descs", "table", "read")}
         \cup (IF ws_descs[hpc.id] # "absent"
                 THEN {Access(HostThread, "ws_descs", "entry", "read")}
                 ELSE {})
  /\ IF ws_descs[hpc.id] # "absent"
       THEN /\ mtx' = [mtx EXCEPT !.ws_descs_mtx = NoThread]
            /\ hpc' = Idle
       ELSE /\ mtx' = unlock("ws_descs_mtx")
            /\ hpc' = [hpc EXCEPT !.at = "forward"]

\* return orig(iface, call, ...): the call of the SDK's method.
Forward(op) ==
  /\ hpc.op = op /\ hpc.at = "forward"
  /\ hpc' = Idle
  /\ access' = {}
  /\ UNCHANGED mtx

\* ISteamUGC::GetItemUpdateInfo called by the host.
SteamUGC_GetItemUpdateInfo ==
  /\ Reaches("ISteamUGC", "GetItemUpdateInfo", "SteamUGC_GetItemUpdateInfo")
  /\ \/ \E id \in ItemIds : HostLock("GetItemUpdateInfo", id, "ws_descs_mtx")
     \/ FindUnderLock("GetItemUpdateInfo")
  /\ UNCHANGED <<boot_vars, call, ws_descs, mods, jobs, am>>

\* ISteamUtils::IsAPICallCompleted called by the host; a call that finds
\* no entry is passed to the SDK.
SteamUtils_IsAPICallCompleted ==
  /\ Reaches("ISteamUtils", "IsAPICallCompleted",
             "SteamUtils_IsAPICallCompleted")
  /\ \/ \E id \in ItemIds : HostLock("IsAPICallCompleted", id, "ws_descs_mtx")
     \/ FindOrForward("IsAPICallCompleted")
     \/ Forward("IsAPICallCompleted")
  /\ UNCHANGED <<boot_vars, call, ws_descs, mods, jobs, am>>

\* ISteamUtils::GetAPICallResult called by the host: with callback_idx =
\* 1313 the handle is looked up under the lock; with any other
\* callback_idx the call is passed to the SDK at once.
SteamUtils_GetAPICallResult ==
  /\ Reaches("ISteamUtils", "GetAPICallResult", "SteamUtils_GetAPICallResult")
  /\ \/ \E id \in ItemIds : HostLock("GetAPICallResult", id, "ws_descs_mtx")
     \/ /\ hpc = Idle
        /\ \E id \in ItemIds :
             hpc' = [Idle EXCEPT !.op = "GetAPICallResult", !.id = id,
                                 !.at = "forward"]
        /\ access' = {}
        /\ UNCHANGED mtx
     \/ FindOrForward("GetAPICallResult")
     \/ Forward("GetAPICallResult")
  /\ UNCHANGED <<boot_vars, call, ws_descs, mods, jobs, am>>

\* ISteamUGC::GetNumSubscribedItems called by the host:
\* std::scoped_lock lock{mods_mtx, ws_descs_mtx} takes both mutexes.
SteamUGC_GetNumSubscribedItems ==
  /\ Reaches("ISteamUGC", "GetNumSubscribedItems",
             "SteamUGC_GetNumSubscribedItems")
  /\ \/ /\ hpc = Idle
        /\ mtx = [ws_descs_mtx |-> NoThread, mods_mtx |-> NoThread]
        /\ mtx' = [ws_descs_mtx |-> HostThread, mods_mtx |-> HostThread]
        /\ hpc' = [Idle EXCEPT !.op = "GetNumSubscribedItems",
                               !.at = "locked"]
        /\ access' = {}
     \/ /\ hpc.op = "GetNumSubscribedItems" /\ hpc.at = "locked"
        /\ access' = {Access(HostThread, "mods", "table", "read"),
                      Access(HostThread, "ws_descs", "table", "read")}
        /\ mtx' = [ws_descs_mtx |-> NoThread, mods_mtx |-> NoThread]
        /\ hpc' = Idle
  /\ UNCHANGED <<boot_vars, call, ws_descs, mods, jobs, am>>

\* std::min<std::size_t> with the bound left out.
MinUnbounded(a, b) == a

\* std::min<std::size_t>(a, b).
Min(a, b) == IF a < b THEN a ELSE b

\* The orders in which n keys of an unordered_map can come first in an
\* iteration over it.
FirstKeys(keys, n) ==
  {s \in [1..n -> keys] : \A j, k \in 1..n : j # k => s[j] # s[k]}

\* ISteamUGC::GetSubscribedItems called by the host: the elements of mods
\* under mods_mtx, then the keys of ws_descs under ws_descs_mtx, into the
\* array ids of max_entries elements. n never exceeds max_entries, so the
\* 32-bit subtraction and additions do not wrap.
SteamUGC_GetSubscribedItems ==
  /\ Reaches("ISteamUGC", "GetSubscribedItems", "SteamUGC_GetSubscribedItems")
  /\ \/ \* std::uint32_t total_copied{}; const std::scoped_lock lock{mods_mtx};
        /\ hpc = Idle
        /\ mtx.mods_mtx = NoThread
        /\ mtx' = [mtx EXCEPT !.mods_mtx = HostThread]
        /\ \E max_entries \in 0..MaxEntries :
             hpc' = [Idle EXCEPT !.op = "GetSubscribedItems",
                                 !.at = "locked",
                                 !.asked = max_entries,
                                 !.max_entries = max_entries]
        /\ access' = {}
     \/ \* n = min(mods.size(), max_entries); copy_n(mods.cbegin(), n, ids);
        \* max_entries -= n; total_copied += n;
        /\ hpc.op = "GetSubscribedItems" /\ hpc.at = "locked"
        /\ access' = {Access(HostThread, "mods", "table", "read")}
        /\ mtx' = release_mods_mtx
        /\ LET n == Min(Len(mods), hpc.max_entries)
           IN hpc' = [hpc EXCEPT !.at = "unlocked",
                                 !.ids = SubSeq(mods, 1, n),
                                 !.max_entries = @ - n,
                                 !.total_copied = @ + n,
                                 !.seen_mods = mods]
     \/ \* const std::scoped_lock lock{ws_descs_mtx};
        /\ hpc.op = "GetSubscribedItems" /\ hpc.at = "unlocked"
        /\ mtx.ws_descs_mtx = NoThread
        /\ mtx' = [mtx EXCEPT !.ws_descs_mtx = HostThread]
        /\ hpc' = [hpc EXCEPT !.at = "locked again"]
        /\ access' = {}
     \/ \* n = min(ws_descs.size(), max_entries);
        \* copy_n((ws_descs | std::views::keys).begin(), n, ids);
        \* total_copied += n;
        /\ hpc.op = "GetSubscribedItems" /\ hpc.at = "locked again"
        /\ access' = {Access(HostThread, "ws_descs", "table", "read")}
        /\ mtx' = [mtx EXCEPT !.ws_descs_mtx = NoThread]
        /\ LET keys == {i \in ItemIds : ws_descs[i] # "absent"}
               n == Min(Cardinality(keys), hpc.max_entries)
           IN \E first \in FirstKeys(keys, n) :
                hpc' = [hpc EXCEPT !.at = "return",
                                   !.ids = @ \o first,
                                   !.total_copied = @ + n,
                                   !.seen_ws_descs = keys]
     \/ \* return total_copied;
        /\ hpc.op = "GetSubscribedItems" /\ hpc.at = "return"
        /\ hpc' = Idle
        /\ access' = {}
        /\ UNCHANGED mtx
  /\ UNCHANGED <<boot_vars, call, ws_descs, mods, jobs, am>>

\* The sizes of the folder buffer the host passes to GetItemInstallInfo.
FolderSizes == {0, 2, 4}

\* A std::uint32_t as its two 16-bit halves.
U32(n) == <<n \div (WordMax + 1), n % (WordMax + 1)>>

\* v - 1 on std::uint32_t.
U32Pred(v) ==
  IF v[2] > 0 THEN <<v[1], v[2] - 1>>
  ELSE IF v[1] > 0 THEN <<v[1] - 1, WordMax>>
  ELSE <<WordMax, WordMax>>

\* std::format(locale, "{}\\{}", ws_dir_path, id) for the workshop
\* directory "w", character by character.
Formatted(id) == <<"w", "\\", ToString(id)>>

\* The number of characters std::format_to_n(out, n, ...) writes: the
\* formatted string cut to n characters.
format_to_n(n, text) ==
  IF n[1] = 0 /\ n[2] < Len(text) THEN n[2] ELSE Len(text)

\* ISteamUGC::GetItemInstallInfo called by the host, with a folder buffer
\* of folder_size bytes: for an item in mods the formatted path and a
\* terminator, else a terminator if there is room for one.
SteamUGC_GetItemInstallInfo ==
  /\ Reaches("ISteamUGC", "GetItemInstallInfo", "SteamUGC_GetItemInstallInfo")
  /\ \/ \* *size_on_disk = 0; const std::scoped_lock lock{mods_mtx};
        /\ hpc = Idle
        /\ mtx.mods_mtx = NoThread
        /\ mtx' = [mtx EXCEPT !.mods_mtx = HostThread]
        /\ \E id \in ItemIds, folder_size \in FolderSizes :
             hpc' = [Idle EXCEPT !.op = "GetItemInstallInfo", !.id = id,
                                 !.at = "locked",
                                 !.folder_size = folder_size]
        /\ access' = {}
     \/ /\ hpc.op = "GetItemInstallInfo" /\ hpc.at = "locked"
        /\ access' = {Access(HostThread, "mods", "table", "read")}
        /\ mtx' = [mtx EXCEPT !.mods_mtx = NoThread]
        /\ hpc' =
             [hpc EXCEPT
                !.at = "return",
                !.written =
                  IF \E k \in 1..Len(mods) : mods[k] = hpc.id
                    THEN \* *format_to_n(folder, folder_size - 1, ...).out
                         \*    = '\0';
                         format_to_n(U32Pred(U32(hpc.folder_size)),
                                     Formatted(hpc.id)) + 1
                    ELSE \* if (folder_size) *folder = '\0';
                         IF hpc.folder_size # 0 THEN 1 ELSE 0]
     \/ \* return true; / return false;
        /\ hpc.op = "GetItemInstallInfo" /\ hpc.at = "return"
        /\ hpc' = Idle
        /\ access' = {}
        /\ UNCHANGED mtx
  /\ UNCHANGED <<boot_vars, call, ws_descs, mods, jobs, am>>

\* The job thread of item i, up to the point where the job stops.
\* auto &desc = *args.item_desc designates the pointer inside the entry of
\* ws_descs; the job thread reads and writes it as a local variable.
\* am_run_job is taken to end with the update that reports the job stopped.
ws_job_proc(i) ==
  /\ \/ \* desc = am_get_item_desc(am, &item_id);
        /\ jobs[i] = "start"
        /\ \E found \in {"null", "desc"}, has_job \in BOOLEAN :
             /\ ws_descs' = [ws_descs EXCEPT ![i] = found]
             /\ jobs' = [jobs EXCEPT
                           ![i] = IF found = "null" \/ ~has_job
                                    THEN "create_job" ELSE "run"]
        /\ access' = {Access(JobThread(i), "ws_descs", "entry", "write")}
     \/ \* res = am_create_job(am, &item_id, 0, false, &desc).primary;
        \* if (res) return res;
        /\ jobs[i] = "create_job"
        /\ \E res \in BOOLEAN :
             IF res
               THEN /\ jobs' = [jobs EXCEPT ![i] = "none"]
                    /\ access' = {}
                    /\ UNCHANGED ws_descs
               ELSE /\ jobs' = [jobs EXCEPT ![i] = "run"]
                    /\ ws_descs' = [ws_descs EXCEPT ![i] = "desc"]
                    /\ access' =
                         {Access(JobThread(i), "ws_descs", "entry", "write")}
     \/ \* am_run_job(am, desc, args.upd_handler)
        /\ jobs[i] = "run"
        /\ \E current_manifest_id \in {0, 1} :
             jobs' = [jobs EXCEPT
                        ![i] = IF current_manifest_id # 0
                                 THEN "stopped" ELSE "erase"]
        /\ access' = {Access(JobThread(i), "ws_descs", "entry", "read")}
        /\ UNCHANGED ws_descs
  /\ UNCHANGED <<boot_vars, call, mods, mtx, hpc, am>>

\* job_upd_handler for item i, called on the job's thread with the update
\* that reports the job stopped.
job_upd_handler(i) ==
  /\ \/ \* if (desc->current_manifest_id) {
        \*   const std::scoped_lock lock{mods_mtx};
        /\ jobs[i] = "stopped"
        /\ mtx.mods_mtx = NoThread
        /\ mtx' = [mtx EXCEPT !.mods_mtx = JobThread(i)]
        /\ jobs' = [jobs EXCEPT ![i] = "mods_locked"]
        /\ access' = {}
        /\ UNCHANGED <<ws_descs, mods>>
     \/ \* mods.emplace_back(desc->id.ws_item_id); }
        /\ jobs[i] = "mods_locked"
        /\ mods' = Append(mods, i)
        /\ access' = {Access(JobThread(i), "mods", "table", "write")}
        /\ mtx' = release_mods_mtx
        /\ jobs' = [jobs EXCEPT ![i] = "erase"]
        /\ UNCHANGED ws_descs
     \/ \* const std::scoped_lock lock{ws_descs_mtx};
        /\ jobs[i] = "erase"
        /\ mtx.ws_descs_mtx = NoThread
        /\ mtx' = [mtx EXCEPT !.ws_descs_mtx = JobThread(i)]
        /\ jobs' = [jobs EXCEPT ![i] = "erase_locked"]
        /\ access' = {}
        /\ UNCHANGED <<ws_descs, mods>>
     \/ \* ws_descs.erase(desc->id.ws_item_id); return;
        /\ jobs[i] = "erase_locked"
        /\ ws_descs' = [ws_descs EXCEPT ![i] = "absent"]
        /\ access' = {Access(JobThread(i), "ws_descs", "table", "write")}
        /\ mtx' = [mtx EXCEPT !.ws_descs_mtx = NoThread]
        /\ jobs' = [jobs EXCEPT ![i] = "none"]
        /\ UNCHANGED mods
  /\ UNCHANGED <<boot_vars, call, hpc, am>>

\* Title 346110 with a workshop directory that exists and holds no item,
\* spoofed as 480, at the moment the host calls SteamAPI_Init.
WsInit ==
  /\ image = WrapInit(ImgRegular)
  /\ attach_res = "TRUE"
  /\ dllmain = Attached("absent")
  /\ settings = [app_id |-> 346110, spoof_app_id |-> 480,
                 auto_update_dlc |-> FALSE, dlc |-> <<>>,
                 installed_dlc |-> {}]
  /\ title = [show_be_servers |-> TRUE, show_unavailable_servers |-> TRUE,
              ws_dir_path |-> "exists", unavailable_dlc |-> <<>>]
  /\ loaded = FALSE
  /\ sdk = [rsrc |-> "ok", ver |-> max_supported_ver, missing |-> "none"]
  /\ ver = Zero
  /\ ptrs = [I \in Ifaces |-> "null"]
  /\ inst_vtable = [I \in Ifaces |-> "sdk"]
  /\ descs = [I \in Ifaces |-> wrapper_desc(MaxNumMethods(I))]
  /\ origs = [v \in OrigVars |-> Null]
  /\ pc = "real_init"
  /\ cur = 0
  /\ trace = <<>>
  /\ writes = {}
  /\ reads = {}
  /\ at_entry = Snapshot
  /\ init_calls = 1
  /\ real_inits = <<>>
  /\ result = "none"
  /\ InitRuntime

\* The wrapper the host thread is in goes on.
HostStep ==
  /\ hpc # Idle
  /\ \/ SteamUGC_SubscribeItem
     \/ SteamUGC_GetItemUpdateInfo
     \/ SteamUtils_IsAPICallCompleted
     \/ SteamUtils_GetAPICallResult
     \/ SteamUGC_GetNumSubscribedItems
     \/ SteamUGC_GetSubscribedItems
     \/ SteamUGC_GetItemInstallInfo

WsNext ==
  \/ Init_CallReal
  \/ Init_Probe
  \/ Init_ObtainPtrs
  \/ ShadowStep
  \/ Init_InstallCommon
  \/ Init_GameCb
  \/ SteamUGC_SubscribeItem
  \/ SteamUGC_GetItemUpdateInfo
  \/ SteamUtils_IsAPICallCompleted
  \/ SteamUtils_GetAPICallResult
  \/ SteamUGC_GetNumSubscribedItems
  \/ SteamUGC_GetSubscribedItems
  \/ SteamUGC_GetItemInstallInfo
  \/ \E i \in ItemIds : ws_job_proc(i)
  \/ \E i \in ItemIds : job_upd_handler(i)

WsSpec == WsInit /\ [][WsNext]_vars

\* The scheduler lets every started wrapper call and every job thread go
\* on, and a thread that waits for a mutex gets it.
WsFairSpec ==
  /\ WsSpec
  /\ SF_vars(HostStep)
  /\ \A i \in ItemIds : SF_vars(ws_job_proc(i)) /\ SF_vars(job_upd_handler(i))

\* ---------------------------------------------------------------------
\* Server rules queries of title 346110: ServerRules and the
\* rules_response_wrapper it hands to the SDK
\* ---------------------------------------------------------------------

\* "TEKWrapper", character by character.
TEKWrapper == <<"T", "E", "K", "W", "r", "a", "p", "p", "e", "r">>

\* std::string_view::starts_with.
starts_with(value, prefix) ==
  /\ Len(value) >= Len(prefix)
  /\ SubSeq(value, 1, Len(prefix)) = prefix

\* The rules a server reports: key and value.
Rules ==
  {[key |-> "SERVERUSESBATTLEYE_b", value |-> <<"t", "r", "u", "e">>],
   [key |-> "SERVERUSESBATTLEYE_b", value |-> <<"f", "a", "l", "s", "e">>],
   [key |-> "SEARCHKEYWORDS_s", value |-> TEKWrapper \o <<" ", "1">>],
   [key |-> "SEARCHKEYWORDS_s", value |-> <<"T", "E", "K">>],
   [key |-> "MATCHTIMEOUT_f", value |-> <<"1", "2", "0">>]}

\* The callbacks of ISteamMatchmakingRulesResponse.
Responded(rule) ==
  [cb |-> "RulesResponded", key |-> rule.key, value |-> rule.value]

FailedToRespond == [cb |-> "RulesFailedToRespond", key |-> "", value |-> <<>>]

RefreshComplete == [cb |-> "RulesRefreshComplete", key |-> "", value |-> <<>>]

\* The test of rules_response_wrapper::RulesResponded.
Cancels(key, value) ==
  \/ /\ ~title.show_be_servers
     /\ key = "SERVERUSESBATTLEYE_b"
     /\ value # <<"f", "a", "l", "s", "e">>
  \/ /\ ~title.show_unavailable_servers
     /\ settings.spoof_app_id # 346110
     /\ key = "SEARCHKEYWORDS_s"
     /\ ~starts_with(value, TEKWrapper)

mm_rest == <<image, attach_res, settings, title, loaded, sdk, ver, ptrs,
             inst_vtable, descs, origs, pc, cur, trace, writes, reads,
             at_entry, init_calls, real_inits, result, call, ws_descs, mods,
             mtx, hpc, jobs, am, access, eos, list_req, dllmain,
             cm>>

\* ISteamMatchmakingServers::ServerRules called by the host: a new wrapper
\* around the game's handler is passed to the SDK's method, which starts
\* the query and returns its handle.
SteamMatchmakingServers_ServerRules ==
  /\ Reaches("ISteamMatchmakingServers", "ServerRules",
             "SteamMatchmakingServers_ServerRules")
  /\ origs["SteamMatchmakingServers_ServerRules_orig"].fn = "sdk"
  /\ \E q \in 1..MaxQueries :
       /\ mm[q].sdk = "none"
       /\ mm' = [mm EXCEPT ![q].sdk = "active", ![q].wrapper = "live"]
  /\ UNCHANGED mm_rest

\* The SDK calls RulesResponded on the wrapper of query q.
RulesResponded(q) ==
  /\ mm[q].sdk = "active"
  /\ mm[q].wrapper = "live"
  /\ Len(mm[q].sent) < MaxRules
  /\ \E rule \in Rules :
       IF Cancels(rule.key, rule.value)
         THEN \* CancelServerQuery_orig(iface, query);
              \* base->RulesFailedToRespond(); delete this;
              mm' = [mm EXCEPT
                       ![q].sent = Append(@, Responded(rule)),
                       ![q].sdk = "over",
                       ![q].cancels = @ + 1,
                       ![q].game = Append(@, FailedToRespond),
                       ![q].wrapper = "deleted",
                       ![q].deletes = @ + 1]
         ELSE \* base->RulesResponded(key, value);
              mm' = [mm EXCEPT
                       ![q].sent = Append(@, Responded(rule)),
                       ![q].game = Append(@, Responded(rule))]
  /\ UNCHANGED mm_rest

\* The SDK ends query q with RulesFailedToRespond on the wrapper:
\* base->RulesFailedToRespond(); delete this;
RulesFailedToRespond(q) ==
  /\ mm[q].sdk = "active"
  /\ mm[q].wrapper = "live"
  /\ mm' = [mm EXCEPT ![q].sent = Append(@, FailedToRespond),
                      ![q].sdk = "over",
                      ![q].game = Append(@, FailedToRespond),
                      ![q].wrapper = "deleted",
                      ![q].deletes = @ + 1]
  /\ UNCHANGED mm_rest

\* The SDK ends query q with RulesRefreshComplete on the wrapper:
\* base->RulesRefreshComplete(); delete this;
RulesRefreshComplete(q) ==
  /\ mm[q].sdk = "active"
  /\ mm[q].wrapper = "live"
  /\ mm' = [mm EXCEPT ![q].sent = Append(@, RefreshComplete),
                      ![q].sdk = "over",
                      ![q].game = Append(@, RefreshComplete),
                      ![q].wrapper = "deleted",
                      ![q].deletes = @ + 1]
  /\ UNCHANGED mm_rest

\* The host calls ISteamMatchmakingServers::CancelServerQuery with the
\* handle ServerRules returned. The method is not intercepted: the SDK
\* drops the query and makes no further callback for it.
CancelServerQuery(q) ==
  /\ pc = "host"
  /\ mm[q].sdk = "active"
  /\ mm' = [mm EXCEPT ![q].sdk = "over"]
  /\ UNCHANGED mm_rest

\* Title 346110 with at least one of the two server filters switched on,
\* at the moment the host calls SteamAPI_Init.
RulesInit ==
  /\ image = WrapInit(ImgRegular)
  /\ attach_res = "TRUE"
  /\ dllmain = Attached("absent")
  /\ settings \in {[app_id |-> 346110, spoof_app_id |-> s,
                    auto_update_dlc |-> FALSE, dlc |-> <<>>,
                    installed_dlc |-> {}] : s \in {0, 480}}
  /\ title \in {[show_be_servers |-> f[1], show_unavailable_servers |-> f[2],
                 ws_dir_path |-> "empty", unavailable_dlc |-> <<>>] :
                  f \in {<<FALSE, TRUE>>, <<TRUE, FALSE>>, <<FALSE, FALSE>>}}
  /\ loaded = FALSE
  /\ sdk = [rsrc |-> "ok", ver |-> max_supported_ver, missing |-> "none"]
  /\ ver = Zero
  /\ ptrs = [I \in Ifaces |-> "null"]
  /\ inst_vtable = [I \in Ifaces |-> "sdk"]
  /\ descs = [I \in Ifaces |-> wrapper_desc(MaxNumMethods(I))]
  /\ origs = [v \in OrigVars |-> Null]
  /\ pc = "real_init"
  /\ cur = 0
  /\ trace = <<>>
  /\ writes = {}
  /\ reads = {}
  /\ at_entry = Snapshot
  /\ init_calls = 1
  /\ real_inits = <<>>
  /\ result = "none"
  /\ InitRuntime

RulesNext ==
  \/ Init_CallReal
  \/ Init_Probe
  \/ Init_ObtainPtrs
  \/ ShadowStep
  \/ Init_InstallCommon
  \/ Init_GameCb
  \/ SteamMatchmakingServers_ServerRules
  \/ \E q \in 1..MaxQueries : RulesResponded(q)
  \/ \E q \in 1..MaxQueries : RulesFailedToRespond(q)
  \/ \E q \in 1..MaxQueries : RulesRefreshComplete(q)
  \/ \E q \in 1..MaxQueries : CancelServerQuery(q)

RulesSpec == RulesInit /\ [][RulesNext]_vars

\* ---------------------------------------------------------------------
\* Title 2399830: the EOS_Connect_Login wrapper and the completion
\* handlers of the logins it starts
\* ---------------------------------------------------------------------

eos_rest == <<image, attach_res, settings, title, loaded, sdk, ver, ptrs,
              inst_vtable, descs, origs, cur, trace, writes, reads,
              at_entry, init_calls, real_inits, result, call, ws_descs,
              mods, mtx, hpc, jobs, am, access, mm, list_req, dllmain,
              cm>>

\* The test of EOS_Connect_Login with || replaced by &&.
UsesEgsAuthBoth(force_egs_auth, spoof_app_id) ==
  force_egs_auth /\ spoof_app_id # 2399830

\* if (force_egs_auth || g_settings.steam->spoof_app_id != 2399830)
UsesEgsAuth(force_egs_auth, spoof_app_id) ==
  force_egs_auth \/ spoof_app_id # 2399830

\* EOS_Platform_Create called by the host: the originals are looked up and
\* the auth interface handle is cached.
EOS_Platform_Create ==
  /\ pc = "host"
  /\ ~eos.platform
  /\ eos' = [eos EXCEPT !.platform = TRUE]
  /\ UNCHANGED <<pc, eos_rest>>

\* EOS_Connect_Login called by the host on a platform it has created. The
\* options structure the host passes lives until the login is over, or only
\* until the call returns.
EOS_Connect_Login(l) ==
  /\ pc = "host"
  /\ eos.platform
  /\ eos.logins[l].phase = "none"
  /\ \E lifetime \in {"login", "call"} :
       LET opts == IF lifetime = "login" THEN "alive" ELSE "dead"
           base == [eos.logins[l] EXCEPT
                      !.spoof_at_call = settings.spoof_app_id,
                      !.options = opts]
       IN IF UsesEgsAuth(eos.force_egs_auth, settings.spoof_app_id)
            THEN \* new login_ctx{...}; EOS_Auth_Login_orig(..., ctx,
                 \* auth_login_complete);
                 eos' = [eos EXCEPT
                           !.logins[l] =
                             [base EXCEPT !.phase = "auth", !.ctx = "live",
                                          !.creds = <<"persistent_auth">>]]
            ELSE \* EOS_Connect_Login_orig(handle, options, client_data,
                 \* completion_delegate);
                 eos' = [eos EXCEPT
                           !.logins[l] =
                             [base EXCEPT !.phase = "connect_host",
                                          !.connect_from = <<"call">>,
                                          !.connect_args = "host"]]
  /\ UNCHANGED <<pc, eos_rest>>

\* The tail of auth_login_complete: the Connect login. Both branches read
\* the options structure through ctx.options; once the host's structure is
\* gone the read is of a dangling pointer, and what is passed on is
\* whatever the memory holds: the SDK works on it or faults on it.
ConnectLogin(l, token) ==
  LET lg == eos.logins[l]
      args == IF lg.options = "dead" THEN "unspecified"
              ELSE IF token THEN "epic_id_token" ELSE "host"
      issued ==
        IF token
          THEN \* EOS_Connect_Login_orig(ctx.handle, &options, &ctx,
               \* connect_login_complete);
               [lg EXCEPT !.phase = "connect_ctx",
                          !.connect_from = Append(@, "completion"),
                          !.connect_args = args]
          ELSE \* EOS_Connect_Login_orig(ctx.handle, ctx.options,
               \* ctx.client_data, ctx.completion_delegate); delete &ctx;
               [lg EXCEPT !.phase = "connect_host",
                          !.connect_from = Append(@, "completion"),
                          !.connect_args = args,
                          !.ctx = "freed", !.frees = @ + 1]
  IN \/ /\ eos' = [eos EXCEPT !.logins[l] = issued]
        /\ pc' = pc
     \/ /\ lg.options = "dead"
        /\ eos' = [eos EXCEPT !.logins[l].phase = "fault"]
        /\ pc' = "crashed"

\* The EOS SDK completes the Epic account login of call l and invokes
\* auth_login_complete.
auth_login_complete(l) ==
  /\ pc = "host"
  /\ eos.logins[l].phase = "auth"
  /\ LET lg == eos.logins[l]
         type == lg.creds[Len(lg.creds)]
     IN \E result_code \in {"success", "failure"} :
          IF result_code = "failure"
            THEN IF type = "persistent_auth"
                   THEN \* ctx.auth_creds.type = account_portal;
                        \* EOS_Auth_Login_orig(..., &ctx, auth_login_complete);
                        /\ eos' = [eos EXCEPT
                                     !.logins[l].creds =
                                       Append(@, "account_portal")]
                        /\ pc' = pc
                   ELSE ConnectLogin(l, FALSE)
            ELSE \* if (!EOS_Auth_CopyIdToken_orig(..., &ctx.token))
                 \E copied \in BOOLEAN : ConnectLogin(l, copied)
  /\ UNCHANGED eos_rest

\* The EOS SDK completes the Connect login that was issued with the
\* login_ctx as client data and invokes connect_login_complete: the token
\* is released, the host's delegate is called with the host's client data,
\* the context is deleted.
connect_login_complete(l) ==
  /\ pc = "host"
  /\ eos.logins[l].phase = "connect_ctx"
  /\ eos' = [eos EXCEPT
               !.logins[l].used_after_free = @ \/ eos.logins[l].ctx # "live",
               !.logins[l].delegate_data = Append(@, "host"),
               !.logins[l].ctx = "freed",
               !.logins[l].frees = @ + 1,
               !.logins[l].phase = "done"]
  /\ UNCHANGED <<pc, eos_rest>>

\* The EOS SDK completes a Connect login that was issued with the host's
\* own delegate and client data.
completion_delegate(l) ==
  /\ pc = "host"
  /\ eos.logins[l].phase = "connect_host"
  /\ eos' = [eos EXCEPT !.logins[l].delegate_data = Append(@, "host"),
                        !.logins[l].phase = "done"]
  /\ UNCHANGED <<pc, eos_rest>>

\* Title 2399830 after a successful attach, with the spoof_app_id the
\* settings file gave (0 when it gave none) and SteamAPI_Init not yet
\* called.
EosInit ==
  /\ image = WrapInit(ImgRegular)
  /\ attach_res = "TRUE"
  /\ dllmain = Attached("true")
  /\ settings \in {[app_id |-> 2399830, spoof_app_id |-> s,
                    auto_update_dlc |-> FALSE, dlc |-> <<>>,
                    installed_dlc |-> {}] : s \in {0, 480, 2399830}}
  /\ title = [show_be_servers |-> FALSE, show_unavailable_servers |-> FALSE,
              ws_dir_path |-> "empty", unavailable_dlc |-> <<>>]
  /\ loaded = FALSE
  /\ sdk = [rsrc |-> "ok", ver |-> max_supported_ver, missing |-> "none"]
  /\ ver = Zero
  /\ ptrs = [I \in Ifaces |-> "null"]
  /\ inst_vtable = [I \in Ifaces |-> "sdk"]
  /\ descs = [I \in Ifaces |-> wrapper_desc(MaxNumMethods(I))]
  /\ origs = [v \in OrigVars |-> Null]
  /\ pc = "host"
  /\ cur = 0
  /\ trace = <<>>
  /\ writes = {}
  /\ reads = {}
  /\ at_entry = Snapshot
  /\ init_calls = 0
  /\ real_inits = <<>>
  /\ result = "none"
  /\ call = NoCall
  /\ ws_descs = [i \in ItemIds |-> "absent"]
  /\ mods = <<>>
  /\ mtx = [ws_descs_mtx |-> NoThread, mods_mtx |-> NoThread]
  /\ hpc = Idle
  /\ jobs = [i \in ItemIds |-> "none"]
  /\ am = FALSE
  /\ access = {}
  /\ mm = [q \in 1..MaxQueries |-> NoQuery]
  /\ list_req = NoRequest
  /\ cm = NoUpdate
  /\ eos \in {[force_egs_auth |-> f, platform |-> FALSE,
               logins |-> [l \in 1..MaxLogins |-> NoLogin]] :
                f \in BOOLEAN}

EosNext ==
  \/ EOS_Platform_Create
  \/ \E l \in 1..MaxLogins : EOS_Connect_Login(l)
  \/ \E l \in 1..MaxLogins : auth_login_complete(l)
  \/ \E l \in 1..MaxLogins : connect_login_complete(l)
  \/ \E l \in 1..MaxLogins : completion_delegate(l)

EosSpec == EosInit /\ [][EosNext]_vars

\* The completion callback the EOS SDK owes for call l.
Completion(l) ==
  \/ auth_login_complete(l)
  \/ connect_login_complete(l)
  \/ completion_delegate(l)

\* The EOS SDK invokes every completion callback it owes.
EosFairSpec ==
  /\ EosSpec
  /\ \A l \in 1..MaxLogins : WF_vars(Completion(l))

\* ---------------------------------------------------------------------
\* The server list request of title 346110: RequestInternetServerList
\* ---------------------------------------------------------------------

list_rest == <<image, attach_res, settings, title, loaded, sdk, ver, ptrs,
               inst_vtable, descs, origs, cur, trace, writes, reads,
               at_entry, init_calls, real_inits, result, call, ws_descs,
               mods, mtx, hpc, jobs, am, access, mm, eos, dllmain,
               cm>>

\* Filters a host passes.
HostFilters ==
  {[key |-> "gamedir", value |-> "ark_survival_evolved"],
   [key |-> "map", value |-> "TheIsland"]}

\* The filter arrays a host passes: num_filters is the length.
FilterLists == UNION {[1..n -> HostFilters] : n \in 0..MaxFilters}

\* An element of the array of std::make_unique_for_overwrite before
\* anything is written to it.
Indeterminate == [key |-> "indeterminate", value |-> "indeterminate"]

\* The count with one element per switched-on filter, whatever
\* unavailable_dlc holds.
NumAddedFlat(show_be_servers, show_unavailable_servers, spoof_app_id, dlc) ==
  (IF show_be_servers THEN 0 ELSE 1)
    + (IF show_unavailable_servers THEN 0 ELSE 1)

\* num_new_filters - num_filters: the number of elements allocated past
\* the host's filters.
NumAdded(show_be_servers, show_unavailable_servers, spoof_app_id, dlc) ==
  (IF show_be_servers THEN 0 ELSE 1)
    + (IF show_unavailable_servers THEN 0
       ELSE IF dlc = <<>>
              THEN (IF show_be_servers /\ spoof_app_id # 346110
                      THEN 1 ELSE 0)
              ELSE 3 + Len(dlc))

\* The elements written through cur_filter, in the order of the writes;
\* each is written one element after the one before it.
Added(show_be_servers, show_unavailable_servers, spoof_app_id, dlc) ==
  (IF show_be_servers THEN <<>>
   ELSE IF ~show_unavailable_servers /\ spoof_app_id # 346110
     THEN <<[key |-> "gamedataand",
             value |-> "SERVERUSESBATTLEYE_b:false,TEKWrapper:1"]>>
     ELSE <<[key |-> "gamedataand",
             value |-> "SERVERUSESBATTLEYE_b:false"]>>)
  \o
  (IF show_unavailable_servers THEN <<>>
   ELSE IF dlc = <<>>
     THEN (IF show_be_servers /\ spoof_app_id # 346110
             THEN <<[key |-> "gamedataand", value |-> "TEKWrapper:1"]>>
             ELSE <<>>)
     ELSE <<[key |-> "or", value |-> ToString(Len(dlc) + 2)],
            [key |-> "gamedataand", value |-> "TEKWrapper:1"],
            [key |-> "nor", value |-> ToString(Len(dlc))]>>
          \o [i \in 1..Len(dlc) |-> [key |-> "map", value |-> dlc[i]]])

\* new_filters when the wrapper calls the original: num_filters elements
\* copied from the host's array, then the elements written through
\* cur_filter, as far as the allocation goes.
NewFilters(filters, num_new_filters, added) ==
  [i \in 1..num_new_filters |->
     IF i <= Len(filters) THEN filters[i]
     ELSE IF i - Len(filters) <= Len(added) THEN added[i - Len(filters)]
     ELSE Indeterminate]

\* ISteamMatchmakingServers::RequestInternetServerList called by the host.
\* A write past the allocation corrupts the heap: the process goes on or
\* stops.
SteamMatchmakingServers_RequestInternetServerList ==
  /\ Reaches("ISteamMatchmakingServers", "RequestInternetServerList",
             "SteamMatchmakingServers_RequestInternetServerList")
  /\ origs["SteamMatchmakingServers_RequestInternetServerList_orig"].fn
       = "sdk"
  /\ \E filters \in FilterLists :
       LET n == NumAdded(title.show_be_servers,
                         title.show_unavailable_servers,
                         settings.spoof_app_id, title.unavailable_dlc)
           added == Added(title.show_be_servers,
                          title.show_unavailable_servers,
                          settings.spoof_app_id, title.unavailable_dlc)
           overrun == Len(added) > n
       IN /\ list_req' = [calls |-> 1, filters |-> filters,
                          num_new_filters |-> Len(filters) + n,
                          new_filters |->
                            NewFilters(filters, Len(filters) + n, added),
                          overrun |-> overrun]
          /\ pc' \in IF overrun THEN {pc, "crashed"} ELSE {pc}
  /\ UNCHANGED list_rest

ListNext ==
  \/ Init_CallReal
  \/ Init_Probe
  \/ Init_ObtainPtrs
  \/ ShadowStep
  \/ Init_InstallCommon
  \/ Init_GameCb
  \/ SteamMatchmakingServers_RequestInternetServerList

ListSpec == RulesInit /\ [][ListNext]_vars

\* ---------------------------------------------------------------------
\* The DLC update: update_dlc and the CM client callbacks
\* ---------------------------------------------------------------------

cm_rest == <<image, attach_res, title, loaded, sdk, ver, ptrs, inst_vtable,
             descs, origs, cur, trace, writes, reads, at_entry, init_calls,
             real_inits, result, call, ws_descs, mods, mtx, hpc, jobs, am,
             access, mm, eos, list_req, dllmain>>

DigitChars == <<"0", "1", "2", "3", "4", "5", "6", "7", "8", "9">>

IsDigit(c) == \E i \in 1..Len(DigitChars) : DigitChars[i] = c

DigitValue(c) == (CHOOSE i \in 1..Len(DigitChars) : DigitChars[i] = c) - 1

\* The number of leading decimal digits of text.
RECURSIVE LeadingDigits(_)
LeadingDigits(text) ==
  IF text = <<>> \/ ~IsDigit(Head(text)) THEN 0
  ELSE 1 + LeadingDigits(Tail(text))

\* The value of a sequence of decimal digits.
RECURSIVE Decimal(_)
Decimal(digits) ==
  IF digits = <<>> THEN 0
  ELSE 10 * Decimal(SubSeq(digits, 1, Len(digits) - 1))
         + DigitValue(digits[Len(digits)])

\* std::from_chars(first, last, id): the leading digits are converted, what
\* follows them is left alone; no leading digit is an error.
from_chars(text) ==
  [ok |-> LeadingDigits(text) > 0,
   id |-> Decimal(SubSeq(text, 1, LeadingDigits(text)))]

\* The segments std::views::split(',') yields from a listofdlc value.
Segments == {<<"7">>, <<"8">>, <<"7", "x">>, <<>>}

\* The listofdlc values the application info holds, as their segments.
DlcLists == UNION {[1..n -> Segments] : n \in 0..MaxListed}

\* std::ranges::contains(dlc | std::views::keys, id).
Owned(dlc, id) == \E i \in 1..Len(dlc) : dlc[i].id = id

\* An element the filter of a loop keeps.
Kept(e) == e.ok

\* new_dlc of cb_app_info: the IDs listofdlc names that from_chars accepts
\* and the owned list does not hold, in the order of the list.
NewDlc(dlc, segments) ==
  LET Ok(i) == /\ from_chars(segments[i]).ok
               /\ ~Owned(dlc, from_chars(segments[i]).id)
  IN SelectSeq([i \in 1..Len(segments) |->
                  [ok |-> Ok(i), id |-> from_chars(segments[i]).id]],
               Kept)

\* delete data_pics.app_entries (form "single") or delete[] (form "array"),
\* then delete &data_pics.
Release(c, form) ==
  [c EXCEPT !.bad_delete = @ \/ c.entries # form,
            !.entries = "none",
            !.entries_frees = @ + 1,
            !.app_entries = <<>>,
            !.data_pics = "freed",
            !.data_frees = @ + 1]

\* A callback ends the chain: cm_disconnect(client).
Disconnect(c) == [c EXCEPT !.chain = "disconnecting"]

\* The CM thread runs callbacks until cm_client_destroy.
CmRuns(stage) ==
  /\ cm.client = "created"
  /\ cm.chain = stage

\* update_dlc up to the wait loop: cm_client_create, which may return
\* nullptr, and cm_connect.
update_dlc_start ==
  /\ pc = "update_dlc"
  /\ cm.main = "none"
  /\ \E created \in BOOLEAN :
       IF created
         THEN /\ cm' = [NoUpdate EXCEPT !.main = "wait", !.client = "created",
                                        !.chain = "connecting"]
              /\ pc' = pc
         ELSE /\ cm' = [NoUpdate EXCEPT !.main = "returned"]
              /\ pc' = "game_cb"
  /\ UNCHANGED <<settings, cm_rest>>

\* cb_connected.
cb_connected ==
  /\ CmRuns("connecting")
  /\ \E ok \in BOOLEAN :
       cm' = IF ok THEN [cm EXCEPT !.chain = "signing_in"]
             ELSE [cm EXCEPT !.done = TRUE, !.chain = "over"]
  /\ UNCHANGED <<settings, pc, cm_rest>>

\* cb_signed_in.
cb_signed_in ==
  /\ CmRuns("signing_in")
  /\ \E ok \in BOOLEAN :
       cm' = IF ok
               THEN [cm EXCEPT !.data_pics = "live", !.entries = "single",
                               !.entries_allocs = @ + 1,
                               !.app_entries = <<settings.app_id>>,
                               !.chain = "access_token"]
               ELSE Disconnect(cm)
  /\ UNCHANGED <<settings, pc, cm_rest>>

\* cb_access_token.
cb_access_token ==
  /\ CmRuns("access_token")
  /\ \E ok \in BOOLEAN :
       cm' = IF ok THEN [cm EXCEPT !.chain = "app_info"]
             ELSE Disconnect(Release(cm, "single"))
  /\ UNCHANGED <<settings, pc, cm_rest>>

\* cb_app_info: the request failed or the data is no VDF document
\* ("fail"), the document has no extended/listofdlc ("no list"), or it has
\* one.
cb_app_info ==
  /\ CmRuns("app_info")
  /\ \E got \in {"fail", "no list", "list"}, segments \in DlcLists :
       LET new_dlc == IF got = "list" THEN NewDlc(settings.dlc, segments)
                      ELSE <<>>
       IN cm' = IF got = "fail" \/ new_dlc = <<>>
                  THEN Disconnect(Release(cm, "single"))
                  ELSE [cm EXCEPT
                          !.bad_delete = @ \/ cm.entries # "single",
                          !.entries_frees = @ + 1,
                          !.entries = "array",
                          !.entries_allocs = @ + 1,
                          !.app_entries = [i \in 1..Len(new_dlc) |->
                                             new_dlc[i].id],
                          !.chain = "dlc_access_token"]
  /\ UNCHANGED <<settings, pc, cm_rest>>

\* cb_dlc_access_token.
cb_dlc_access_token ==
  /\ CmRuns("dlc_access_token")
  /\ \E ok \in BOOLEAN :
       cm' = IF ok THEN [cm EXCEPT !.chain = "dlc_info"]
             ELSE Disconnect(Release(cm, "array"))
  /\ UNCHANGED <<settings, pc, cm_rest>>

\* The entries of cb_dlc_info's loop whose name could be read.
NamedEntries(entries, readable) ==
  SelectSeq([i \in 1..Len(entries) |->
               [id |-> entries[i], name |-> <<"n">>, ok |-> readable[i]]],
            Kept)

\* cb_dlc_info: readable[i] tells whether entry i succeeded and its data is
\* a VDF document with common/name.
cb_dlc_info ==
  /\ CmRuns("dlc_info")
  /\ \E ok \in BOOLEAN, readable \in [1..Len(cm.app_entries) -> BOOLEAN] :
       IF ~ok
         THEN /\ cm' = Disconnect(Release(cm, "array"))
              /\ settings' = settings
         ELSE LET named == NamedEntries(cm.app_entries, readable)
                  add == [i \in 1..Len(named) |->
                            [id |-> named[i].id, name |-> named[i].name]]
              IN /\ settings' =
                      [settings EXCEPT
                         !.dlc = @ \o add,
                         !.installed_dlc =
                           @ \cup {add[i].id : i \in 1..Len(add)}]
                 /\ cm' = Disconnect(Release(
                            [cm EXCEPT
                               !.added = add,
                               !.saves = IF add # <<>> THEN @ + 1 ELSE @],
                            "array"))
  /\ UNCHANGED <<pc, cm_rest>>

\* cb_disconnected.
cb_disconnected ==
  /\ CmRuns("disconnecting")
  /\ cm' = [cm EXCEPT !.done = TRUE, !.chain = "over"]
  /\ UNCHANGED <<settings, pc, cm_rest>>

\* The wait loop goes on while done is clear, whatever WaitOnAddress
\* returned.
LoopExitsWhenDone(done, timed_out) == done

\* The wait loop of update_dlc ends by break when WaitOnAddress timed out,
\* and when done is set.
LoopExits(done, timed_out) == timed_out \/ done

\* One turn of the wait loop: WaitOnAddress returns because done was set,
\* because 10 s passed, or for no reason.
wait_loop ==
  /\ cm.main = "wait"
  /\ \E timed_out \in IF cm.done THEN {FALSE} ELSE BOOLEAN :
       /\ LoopExits(cm.done, timed_out)
       /\ cm' = [cm EXCEPT !.main = "destroy"]
  /\ UNCHANGED <<settings, pc, cm_rest>>

\* cm_client_destroy(client) and the return of update_dlc. A request the
\* client still has in flight gets no callback any more.
update_dlc_end ==
  /\ cm.main = "destroy"
  /\ cm' = [cm EXCEPT !.main = "returned", !.client = "destroyed",
                      !.destroys = @ + 1]
  /\ pc' = "game_cb"
  /\ UNCHANGED <<settings, cm_rest>>

\* SteamAPI_Init at its call of update_dlc: auto_update_dlc is set and
\* steamclient::load() has succeeded. The owned list is empty or holds one
\* DLC. The wrapper descriptors play no part in the update and are as static
\* initialisation left them.
DlcInit ==
  /\ image = WrapInit(ImgRegular)
  /\ attach_res = "TRUE"
  /\ dllmain = Attached("absent")
  /\ settings \in {[app_id |-> 730, spoof_app_id |-> 730,
                    auto_update_dlc |-> TRUE, dlc |-> d,
                    installed_dlc |-> {d[i].id : i \in 1..Len(d)}] :
                     d \in {<<>>, <<[id |-> 7, name |-> <<"a">>]>>}}
  /\ title = [show_be_servers |-> FALSE, show_unavailable_servers |-> FALSE,
              ws_dir_path |-> "empty", unavailable_dlc |-> <<>>]
  /\ loaded = TRUE
  /\ sdk = [rsrc |-> "ok", ver |-> max_supported_ver, missing |-> "none"]
  /\ ver = Zero
  /\ ptrs = [I \in Ifaces |-> "null"]
  /\ inst_vtable = [I \in Ifaces |-> "sdk"]
  /\ descs = [I \in Ifaces |-> wrapper_desc(MaxNumMethods(I))]
  /\ origs = [v \in OrigVars |-> Null]
  /\ pc = "update_dlc"
  /\ cur = 0
  /\ trace = <<>>
  /\ writes = {}
  /\ reads = {}
  /\ at_entry = Snapshot
  /\ init_calls = 1
  /\ real_inits = <<>>
  /\ result = "none"
  /\ InitRuntime

DlcNext ==
  \/ update_dlc_start
  \/ cb_connected
  \/ cb_signed_in
  \/ cb_access_token
  \/ cb_app_info
  \/ cb_dlc_access_token
  \/ cb_dlc_info
  \/ cb_disconnected
  \/ wait_loop
  \/ update_dlc_end

DlcSpec == DlcInit /\ [][DlcNext]_vars

\* The steps of the thread that called update_dlc.
MainThread ==
  \/ update_dlc_start
  \/ wait_loop
  \/ update_dlc_end

\* The calling thread keeps running, and a wait of WaitOnAddress ends
\* after 10 s at the latest.
DlcFairSpec == DlcSpec /\ WF_vars(MainThread)

\* ---------------------------------------------------------------------
\* Properties
\* ---------------------------------------------------------------------

\* C1: however often the host calls the hooked SteamAPI_Init, no wrapper
\* descriptor's orig_vtable designates the descriptor's own shadow table, and
\* every saved pass-through pointer is null or an SDK original, never one of
\* the runtime's interception functions.
C1_ShadowedAtMostOnce ==
  /\ \A I \in Ifaces : descs[I].orig_vtable # "shadow"
  /\ \A v \in OrigVars : origs[v].fn \in {"null", "sdk"}

\* C2: every store of an interception function the wrapper and the per-title
\* callback make goes to a slot vm_idxs[id] >= 0: none is made at index -1.
C2_StoresOnlyAtPresentSlots ==
  \A w \in writes : w.idx >= 0

\* C3: once the version probe has run, the wrapper goes on to obtain the
\* interfaces and resolve their shapes if and only if the version resource
\* was readable and holds a version <= max_supported_ver (the maximum itself
\* is accepted); otherwise the call has returned false to the host.
C3_ProceedsIffSupported ==
  LET accepted == sdk.rsrc = "ok" /\ ~VerLess(<<9, 60, 44, 10>>, sdk.ver)
  IN Len(trace) >= 2 =>
       IF accepted
         THEN Len(trace) = 2 => pc = "obtain"
         ELSE Len(trace) = 2 /\ pc = "host" /\ result = "false"

\* C3, witness: version 09.60.44.10 was accepted and shadowing has begun.
C3_MaxVersionAccepted ==
  /\ sdk.ver = <<9, 60, 44, 10>>
  /\ pc = "shadow"
  /\ descs["ISteamApps"].num_methods = 33

\* C4: in every descriptor, num_methods is at most the capacity of the shadow
\* table and every vm_idxs entry other than -1 lies in 0..num_methods - 1.
C4_SlotsWithinShape ==
  \A I \in Ifaces :
    /\ descs[I].num_methods <= MaxNumMethods(I)
    /\ \A id \in DOMAIN descs[I].vm_idxs :
         descs[I].vm_idxs[id] # -1 =>
           descs[I].vm_idxs[id] \in 0..(descs[I].num_methods - 1)

\* C4, witness: all six interfaces are set up, ISteamUser and ISteamUGC with
\* shapes whose slots are listed one by one.
C4_ListedShapesResolved ==
  /\ pc = "install"
  /\ descs["ISteamUser"].num_methods = 24
  /\ descs["ISteamUGC"].num_methods = 14

\* C5: for each interface the thresholds are strictly descending and end in a
\* catch-all, so exactly one record is the first whose threshold is <= ver;
\* a descriptor that has been set up carries that record's method count and
\* slots. Version 03.42.61.66 gives ISteamApps 33 methods.
C5_FirstMatchingRecord ==
  \A I \in Ifaces :
    LET shapes == Shapes(I)
        n == Len(shapes)
        hits == {k \in 1..n : ~VerLess(ver, shapes[k].min_version)}
        first == {k \in hits : \A j \in hits : k <= j}
    IN /\ \A k \in 1..(n - 1) :
            VerLess(shapes[k + 1].min_version, shapes[k].min_version)
       /\ shapes[n].min_version = <<0, 0, 0, 0>>
       /\ Cardinality(first) = 1
       /\ descs[I].orig_vtable # "null" =>
            \A k \in first :
              /\ descs[I].num_methods = shapes[k].num_methods
              /\ \A p \in 1..Len(shapes[k].order) :
                   descs[I].vm_idxs[shapes[k].order[p]] = p - 1
       /\ (I = "ISteamApps" /\ ver = <<3, 42, 61, 66>>
             /\ descs[I].orig_vtable # "null") => descs[I].num_methods = 33

\* C5, witness: version 03.42.61.66 has resolved ISteamApps to 33 methods.
C5_ScenarioA ==
  /\ ver = <<3, 42, 61, 66>>
  /\ descs["ISteamApps"].num_methods = 33
  /\ pc = "install"

\* C6: a descriptor that has been set up keeps in orig_vtable the SDK's own
\* table, the live instance designates the shadow table, and every shadow
\* entry below num_methods that no interception function was stored in equals
\* the SDK's entry at the same index.
C6_OriginalTablePreserved ==
  \A I \in Ifaces :
    descs[I].orig_vtable # "null" =>
      /\ descs[I].orig_vtable = "sdk"
      /\ inst_vtable[I] = "shadow"
      /\ \A i \in 0..(descs[I].num_methods - 1) :
           (\A w \in writes : ~(w.desc = I /\ w.idx = i)) =>
             descs[I].vtable[i] = [fn |-> "sdk", slot |-> i]

\* C7: the steps of a call run in the order real init, version probe,
\* obtaining the pointers, shape resolution and shadowing of the six
\* interfaces, installation of the common interception functions, per-title
\* callback; and when the call has returned true, every interface whose
\* pointer was obtained designates its shadow table, in which every common
\* interception function whose method the shape has is installed.
C7_OrderedAndShadowedOnSuccess ==
  LET order == <<"real_init", "probe", "obtain", "shadow", "shadow", "shadow",
                 "shadow", "shadow", "shadow", "install", "game_cb">>
      common ==
        {<<"ISteamApps", "BIsSubscribed", "SteamApps_BIsSubscribed">>,
         <<"ISteamApps", "BIsSubscribedApp", "SteamApps_BIsSubscribedApp">>,
         <<"ISteamApps", "BIsDlcInstalled", "SteamApps_BIsDlcInstalled">>,
         <<"ISteamApps", "BIsSubscribedFromFreeWeekend",
           "SteamApps_BIsSubscribedFromFreeWeekend">>,
         <<"ISteamApps", "GetDLCCount", "SteamApps_GetDLCCount">>,
         <<"ISteamApps", "BGetDLCDataByIndex",
           "SteamApps_BGetDLCDataByIndex">>,
         <<"ISteamApps", "BIsAppInstalled", "SteamApps_BIsAppInstalled">>,
         <<"ISteamApps", "GetAppOwner", "SteamApps_GetAppOwner">>,
         <<"ISteamApps", "BIsSubscribedFromFamilySharing",
           "SteamApps_BIsSubscribedFromFamilySharing">>,
         <<"ISteamApps", "BIsTimedTrial", "SteamApps_BIsTimedTrial">>,
         <<"ISteamUser", "UserHasLicenseForApp",
           "SteamUser_UserHasLicenseForApp">>,
         <<"ISteamUtils", "GetAppID", "SteamUtils_GetAppID">>}
  IN /\ Len(trace) <= Len(order)
     /\ \A k \in 1..Len(trace) : trace[k] = order[k]
     /\ (pc = "host" /\ result = "true" /\ trace # <<>>) =>
          /\ trace = order
          /\ \A I \in Ifaces :
               ptrs[I] = "inst" =>
                 /\ inst_vtable[I] = "shadow"
                 /\ descs[I].orig_vtable # "null"
                 /\ descs[I].num_methods > 0
          /\ \A I \in {"ISteamApps", "ISteamUser", "ISteamUtils"} :
               ptrs[I] = "inst"
          /\ \A c \in common :
               LET idx == descs[c[1]].vm_idxs[EnumVal(Enum(c[1]), c[2])]
               IN idx >= 0 =>
                    descs[c[1]].vtable[idx] = [fn |-> c[3], slot |-> -1]

\* C7, witness: a call has returned true with all six interfaces shadowed.
C7_SuccessWithSixInterfaces ==
  /\ pc = "host"
  /\ result = "true"
  /\ \A I \in Ifaces : ptrs[I] = "inst" /\ inst_vtable[I] = "shadow"

\* C8: when a call of the wrapper has returned false, every instance's table
\* pointer, every shadow table and every slot map are as they were when the
\* call began; and if the real SteamAPI_Init failed, the call ran neither the
\* version probe nor any later step.
C8_FailureChangesNothing ==
  (pc = "host" /\ result = "false" /\ trace # <<>>) =>
    /\ inst_vtable = at_entry.inst_vtable
    /\ \A I \in Ifaces :
         /\ descs[I].vtable = at_entry.descs[I].vtable
         /\ descs[I].vm_idxs = at_entry.descs[I].vm_idxs
    /\ \A k \in 1..Len(trace) : trace[k] \in {"real_init", "probe"}
    /\ ~real_inits[Len(real_inits)].ok => trace = <<"real_init">>

\* C8, witness: after a call that shadowed the interfaces, a further call has
\* failed in the real SteamAPI_Init.
C8_FailureAfterSuccess ==
  /\ pc = "host"
  /\ result = "false"
  /\ init_calls = 2
  /\ trace = <<"real_init">>
  /\ inst_vtable["ISteamApps"] = "shadow"

\* C9: every load through orig_vtable[vm_idxs[id]] made by the wrapper and by
\* the per-title callback uses an index >= 0 and < num_methods, on a
\* descriptor whose orig_vtable is set.
C9_LoadsAtPresentSlots ==
  \A r \in reads : r.idx >= 0 /\ r.idx < r.num_methods /\ r.orig_set

\* C9, witness: a call has returned true after the per-title callback loaded
\* the ISteamMatchmakingServers and ISteamUtils originals, on an SDK whose
\* ISteamApps has no BIsAppInstalled.
C9_PerTitleLoadsDone ==
  /\ pc = "host"
  /\ result = "true"
  /\ \E r \in reads : r.desc = "ISteamUtils"
  /\ \E r \in reads : r.desc = "ISteamMatchmakingServers"
  /\ descs["ISteamApps"].vm_idxs[EnumVal(ISteamApps_m, "BIsAppInstalled")] = -1

\* C10: on an image whose import directory has a descriptor named
\* steam_api64.dll with a name-table entry SteamAPI_Init, after wrap_init the
\* address-table cell at that entry's index holds the wrapper and every other
\* cell of every import and delay-load address table holds what it held.
C10_ExactlyTheImportCell ==
  pc = "patched" =>
    \A k \in DOMAIN image.imports :
      \A i \in DOMAIN image.imports[k].names :
        (/\ image.imports[k].Name = "steam_api64.dll"
         /\ image.imports[k].names[i] =
              [ordinal |-> FALSE, name |-> "SteamAPI_Init"]) =>
          /\ image.imports[k].cells[i] = [fn |-> "SteamAPI_Init", at |-> 0]
          /\ \A k2 \in DOMAIN image.imports :
               \A i2 \in DOMAIN image.imports[k2].cells :
                 <<k2, i2>> # <<k, i>> =>
                   image.imports[k2].cells[i2] = [fn |-> "bound", at |-> i2]
          /\ \A k2 \in DOMAIN image.delays :
               \A i2 \in DOMAIN image.delays[k2].cells :
                 image.delays[k2].cells[i2] = [fn |-> "bound", at |-> i2]

\* C10, witness: wrap_init has run on an image that imports SteamAPI_Init
\* from steam_api64.dll as the second entry of the second descriptor and
\* names it in a delay-load descriptor as well.
C10_PatchedBesideDelayImport ==
  /\ pc = "patched"
  /\ Len(image.imports) = 2
  /\ image.imports[2].Name = "steam_api64.dll"
  /\ Len(image.imports[2].names) = 2
  /\ image.imports[2].names[2] = [ordinal |-> FALSE, name |-> "SteamAPI_Init"]
  /\ image.imports[2].cells[2] = [fn |-> "SteamAPI_Init", at |-> 0]
  /\ \E k \in DOMAIN image.delays :
       /\ image.delays[k].Name = "steam_api64.dll"
       /\ \E i \in DOMAIN image.delays[k].names :
            image.delays[k].names[i].name = "SteamAPI_Init"

\* ---------------------------------------------------------------------
\* Claims C11..C20
\* ---------------------------------------------------------------------

\* The descriptors of both directories of an image.
AllDescriptors(img) ==
  {img.imports[k] : k \in 1..Len(img.imports)}
    \cup {img.delays[k] : k \in 1..Len(img.delays)}

\* The cells of an image that hold the address of the SteamAPI_Init wrapper.
HookedCells(img) ==
  {<<t, k, i>> \in {"imports", "delays"} \X (1..MaxDescs) \X (1..MaxThunks) :
     /\ k <= Len(img[t])
     /\ i <= Len(img[t][k].cells)
     /\ img[t][k].cells[i] = Hooked}

\* No descriptor named steam_api64.dll names SteamAPI_Init.
NamedNowhere(img) ==
  \A d \in AllDescriptors(img) :
    d.Name = "steam_api64.dll" =>
      \A i \in 1..Len(d.names) : d.names[i] # ByName("SteamAPI_Init")

\* C11: when neither directory of the image has a descriptor named
\* steam_api64.dll that names SteamAPI_Init, wrap_init stores to no cell,
\* the attach returns TRUE once the settings are loaded and the title's
\* callback succeeded, and no interface object is ever given a shadow table.
C11_UnfoundLeavesHostAlone ==
  NamedNowhere(image) =>
    /\ HookedCells(image) = {}
    /\ pc # "crashed"
    /\ pc = "host" => attach_res = "TRUE"
    /\ \A I \in Ifaces : inst_vtable[I] = "sdk"
    /\ descs = [I \in Ifaces |-> wrapper_desc(MaxNumMethods(I))]

\* The first descriptor of ds named steam_api64.dll names SteamAPI_Init at i.
NamesInitAt(ds, i) ==
  /\ FindDescriptor(ds) # 0
  /\ i \in 1..Len(ds[FindDescriptor(ds)].names)
  /\ ds[FindDescriptor(ds)].names[i] = ByName("SteamAPI_Init")

\* C12: after wrap_init, an image whose import directory does not name
\* SteamAPI_Init in steam_api64.dll and whose delay-load directory names it
\* at index i has the delay-load cell i holding the wrapper; an image whose
\* import directory names it by name has no delay-load cell changed; and at
\* most one cell of the image holds the wrapper.
C12_DelayLoadSecond ==
  pc # "attach" =>
    /\ Cardinality(HookedCells(image)) <= 1
    /\ (\E i \in 1..MaxThunks : NamesInitAt(image.imports, i))
         => \A c \in HookedCells(image) : c[1] = "imports"
    /\ \A i \in 1..MaxThunks :
         (/\ \A j \in 1..MaxThunks : ~NamesInitAt(image.imports, j)
          /\ NamesInitAt(image.delays, i))
           => image.delays[FindDescriptor(image.delays)].cells[i] = Hooked

\* C13: a call of the wrapper during which the SDK yields no instance for
\* one interface does not end in a read through that null pointer, and
\* once the shadowing stage is over every interface that has an instance
\* is shadowed.
C13_NullInterfaceIsSoftFailure ==
  /\ ~(/\ pc = "crashed"
       /\ trace # <<>>
       /\ trace[Len(trace)] = "shadow"
       /\ \E I \in Ifaces : ptrs[I] = "null")
  /\ (pc \in {"install", "game_cb"} \/ (pc = "host" /\ result = "true"))
       => \A I \in Ifaces : ptrs[I] = "inst" => inst_vtable[I] = "shadow"

\* C14: a call of BIsSubscribedApp or BIsAppInstalled that reached the
\* wrapper either returned true without a call of the saved original (the
\* ID is settings app_id, or is in the dlc list, respectively the
\* installed_dlc set), or called the saved original exactly once and
\* returned what that call returned.
C14_AnswerOrForward ==
  call.fn \in {"SteamApps_BIsSubscribedApp", "SteamApps_BIsAppInstalled"} =>
    LET own == \/ call.arg = settings.app_id
               \/ /\ call.fn = "SteamApps_BIsSubscribedApp"
                  /\ InDlc(call.arg)
               \/ /\ call.fn = "SteamApps_BIsAppInstalled"
                  /\ call.arg \in settings.installed_dlc
    IN /\ own => call.ret = "true" /\ call.forwards = 0
       /\ ~own => /\ call.forwards = 1
                  /\ call.ret \in {"true", "false"}
                  /\ call.ret = call.orig_ret

\* C15: every read and write of ws_descs, the descriptor pointer inside an
\* entry included, is made by a thread that holds ws_descs_mtx, and every
\* read and write of mods by a thread that holds mods_mtx.
C15_AccessesUnderMutex == \A a \in access : a.held

\* C16: GetDLCCount returns the length of the dlc list; a call of
\* BGetDLCDataByIndex with 0 <= idx < that length returns true with the ID
\* of the entry at idx, available = true and the first name_buf_size - 1
\* characters of its name at most; with any other idx it returns false and
\* reads no element of the list.
C16_DlcEnumeration ==
  /\ call.fn = "SteamApps_GetDLCCount" => call.count = Len(settings.dlc)
  /\ call.fn = "SteamApps_BGetDLCDataByIndex" =>
       LET n == Len(settings.dlc)
           idx == call.arg
       IN IF 0 <= idx /\ idx < n
            THEN /\ call.ret = "true"
                 /\ call.out_id = settings.dlc[idx + 1].id
                 /\ call.out_available = "true"
                 /\ call.size > 0 =>
                      /\ Len(call.out_name) <= call.size - 1
                      /\ Len(call.out_name) <= Len(settings.dlc[idx + 1].name)
                      /\ \/ Len(call.out_name) = call.size - 1
                         \/ Len(call.out_name)
                              = Len(settings.dlc[idx + 1].name)
                      /\ \A k \in 1..Len(call.out_name) :
                           call.out_name[k] = settings.dlc[idx + 1].name[k]
            ELSE call.ret = "false" /\ call.elems = {}

\* What C17 requires of one run of the real-init stage of the wrapper.
RealInitStep ==
  pc = "real_init" =>
    LET s == settings.spoof_app_id
        calls == real_inits'
        last == calls[Len(calls)]
    IN /\ Len(calls) \in 1..2
       /\ s # 0 => Len(calls) = 1 /\ calls[1].id = s
       /\ s = 0 => /\ calls[1].id = settings.app_id
                   /\ Len(calls) = 2 <=> ~calls[1].ok
                   /\ Len(calls) = 2 => calls[2].id = 480
       /\ last.ok => settings'.spoof_app_id = last.id
       /\ ~last.ok => settings'.spoof_app_id = s
       /\ settings'.app_id = settings.app_id

\* C17: the wrapper calls the real SteamAPI_Init once under the configured
\* spoof_app_id when that is non-zero; when it is zero it calls it under
\* app_id and, only if that call fails, once more under 480; afterwards
\* spoof_app_id is the ID of the call that succeeded, or is unchanged when
\* none did.
C17_EffectiveAppId == [][RealInitStep]_vars

\* The real init failed under app_id and succeeded under 480.
C17_FellBackTo480 ==
  /\ real_inits = <<[id |-> 730, ok |-> FALSE], [id |-> 480, ok |-> TRUE]>>
  /\ settings.spoof_app_id = 480
  /\ pc = "probe"

\* C18, as stated: version word 0x0001000000000000 resolves ISteamApps to
\* the 8-method shape of the catch-all record.
C18_ResolvesToCatchAll ==
  (ver = <<1, 0, 0, 0>> /\ descs["ISteamApps"].orig_vtable # "null")
    => descs["ISteamApps"].num_methods = 8

\* C18, amended: version word 0x0001000000000000 is not below every
\* non-zero threshold of ISteamApps: it is at least 0x0000006000210030 and
\* below 0x0001001E0032002E, and resolves ISteamApps to the 14-method
\* shape; the catch-all's 8-method shape is resolved exactly for the
\* versions below 0x0000006000210030.
C18_ResolvesToFourteen ==
  descs["ISteamApps"].orig_vtable # "null" =>
    /\ ver = <<1, 0, 0, 0>> => descs["ISteamApps"].num_methods = 14
    /\ descs["ISteamApps"].num_methods = 8 <=> VerLess(ver, <<0, 96, 33, 48>>)

\* Version 0x0001000000000000 has resolved ISteamApps.
C18_ScenarioB ==
  /\ ver = <<1, 0, 0, 0>>
  /\ descs["ISteamApps"].num_methods = 14
  /\ inst_vtable["ISteamApps"] = "shadow"

\* What C19 requires of a call of wrap_init that is not the first.
RepeatedWrapInit ==
  (pc \in {"patched", "repatched"} /\ pc' = "repatched") => image' = image

\* C19: every call of wrap_init after the first one leaves each cell of the
\* image as the first call left it, so any number of calls has the effect
\* of one.
C19_WrapInitIdempotent == [][RepeatedWrapInit]_vars

\* wrap_init has run again on an image it had patched.
C19_PatchedTwice ==
  /\ pc = "repatched"
  /\ Cardinality(HookedCells(image)) = 1

\* C20: an entry of ws_descs is eventually removed again, whatever becomes
\* of the job that SubscribeItem started for it.
C20_EntryEventuallyRemoved ==
  \A i \in ItemIds : (ws_descs[i] # "absent") ~> (ws_descs[i] = "absent")

\* ---------------------------------------------------------------------
\* Claims C21..C30
\* ---------------------------------------------------------------------

\* C30: once the attach has succeeded, the cell of every import of
\* SteamAPI_Init by name from a descriptor whose module name is
\* steam_api64.dll in any letter case holds the wrapper: the first such
\* descriptor of the import directory, or else of the delay-load directory,
\* is recognised.
C30_AnyLetterCase ==
  pc = "host" =>
    LET Named(ds) == {k \in 1..Len(ds) :
                        /\ LowerCase(ds[k].Name) = "steam_api64.dll"
                        /\ FindThunk(ds[k].names, TRUE) # 0}
        Patched(ds) == \E k \in Named(ds) :
                         ds[k].cells[FindThunk(ds[k].names, TRUE)] = Hooked
    IN /\ Named(image.imports) # {} => Patched(image.imports)
       /\ (Named(image.imports) = {} /\ Named(image.delays) # {})
            => Patched(image.delays)

\* The host thread is at a call out of an interception function: of
\* install_workshop_item in SubscribeItem, or of the SDK's original method
\* in IsAPICallCompleted / GetAPICallResult.
CallsOut ==
  \/ hpc.op = "SubscribeItem" /\ hpc.at = "unlocked" /\ hpc.emplaced
  \/ hpc.op \in {"IsAPICallCompleted", "GetAPICallResult"}
       /\ hpc.at = "forward"

\* C21: the host thread holds neither ws_descs_mtx nor mods_mtx at any call
\* from an interception function into install_workshop_item or into an
\* original SDK method.
C21_NoCallOutUnderLock ==
  CallsOut => \A m \in DOMAIN mtx : mtx[m] # HostThread

\* C21 witness: SubscribeItem has emplaced an entry for an item whose
\* earlier job has completed, and is about to start the install job.
C21_AboutToInstall ==
  /\ CallsOut
  /\ hpc.op = "SubscribeItem"
  /\ mods # <<>>

\* The threads of the model.
Threads == {HostThread} \cup {JobThread(i) : i \in ItemIds}

\* Thread t is at a lock of mutex m that is not part of a simultaneous
\* acquisition: its next step is to take m, and it waits while m is held.
Waits(t, m) ==
  \/ /\ t = HostThread
     /\ hpc.op = "GetSubscribedItems" /\ hpc.at = "unlocked"
     /\ m = "ws_descs_mtx"
  \/ \E i \in ItemIds :
       /\ t = JobThread(i)
       /\ \/ jobs[i] = "stopped" /\ m = "mods_mtx"
          \/ jobs[i] = "erase" /\ m = "ws_descs_mtx"

\* C22: no thread waits for mods_mtx or ws_descs_mtx while it holds either
\* of them, so the holder of a mutex can always go on to release it and no
\* set of threads waits in a cycle.
C22_NoHoldAndWait ==
  \A t \in Threads : \A m \in DOMAIN mtx :
    Waits(t, m) => \A held \in DOMAIN mtx : mtx[held] # t

\* C22 witness: GetNumSubscribedItems holds both mutexes while a job thread
\* whose job has stopped waits for mods_mtx.
C22_JobWaitsForHost ==
  /\ hpc.op = "GetNumSubscribedItems" /\ hpc.at = "locked"
  /\ \E i \in ItemIds : Waits(JobThread(i), "mods_mtx")

\* The host thread is inside GetNumSubscribedItems or GetSubscribedItems
\* and holds the mutexes of what it is about to read.
Observes ==
  /\ hpc.op \in {"GetNumSubscribedItems", "GetSubscribedItems"}
  /\ hpc.at \in {"locked", "locked again"}

\* C23: in every state GetNumSubscribedItems or GetSubscribedItems observes,
\* mods holds no ID twice and no ID of mods has an entry in ws_descs.
C23_EachItemOnce ==
  Observes =>
    /\ \A j, k \in 1..Len(mods) : j # k => mods[j] # mods[k]
    /\ \A j \in 1..Len(mods) : ws_descs[mods[j]] = "absent"

\* What the game's handler is to receive for the callbacks sent, by the
\* rules of the claim: a rule of a server that is to be hidden turns into
\* RulesFailedToRespond and ends the delivery, anything else is passed on.
RECURSIVE Delivered(_)
Delivered(sent) ==
  IF sent = <<>> THEN <<>>
  ELSE LET e == Head(sent)
           hidden ==
             /\ e.cb = "RulesResponded"
             /\ \/ /\ ~title.show_be_servers
                   /\ e.key = "SERVERUSESBATTLEYE_b"
                   /\ e.value # <<"f", "a", "l", "s", "e">>
                \/ /\ ~title.show_unavailable_servers
                   /\ settings.spoof_app_id # 346110
                   /\ e.key = "SEARCHKEYWORDS_s"
                   /\ \/ Len(e.value) < Len(TEKWrapper)
                      \/ \E k \in 1..Len(TEKWrapper) :
                           e.value[k] # TEKWrapper[k]
       IN IF hidden THEN <<FailedToRespond>>
          ELSE <<e>> \o Delivered(Tail(sent))

\* C24: for every server query, the game's handler has received the
\* callbacks sent with the rule of a hidden server replaced by one
\* RulesFailedToRespond that ends the delivery; the wrapper has cancelled
\* the query exactly when it hid the server; and once the SDK is done with
\* the query its wrapper has been destroyed exactly once.
C24_RulesFiltered ==
  \A q \in 1..MaxQueries :
    /\ mm[q].game = Delivered(mm[q].sent)
    /\ mm[q].cancels =
         (IF mm[q].game # mm[q].sent THEN 1 ELSE 0)
    /\ mm[q].deletes <= 1
    /\ mm[q].sdk = "over" => mm[q].deletes = 1

\* C25: a started EOS_Connect_Login call was forwarded at once, with the
\* host's arguments and without a login context, exactly when
\* force_egs_auth is false and spoof_app_id was 2399830 at the call; every
\* other call started an Epic account login with persistent_auth and has
\* issued a Connect login from the completion of that login only.
C25_ForwardedIffSteamAuth ==
  \A l \in 1..MaxLogins :
    LET lg == eos.logins[l] IN
    lg.phase # "none" =>
      IF ~eos.force_egs_auth /\ lg.spoof_at_call = 2399830
        THEN /\ lg.creds = <<>>
             /\ lg.ctx = "none"
             /\ lg.connect_from = <<"call">>
             /\ lg.connect_args = "host"
        ELSE /\ lg.creds # <<>>
             /\ lg.creds[1] = "persistent_auth"
             /\ \A k \in 1..Len(lg.connect_from) :
                  lg.connect_from[k] = "completion"

\* C25 witness: with force_egs_auth on and the effective app ID 2399830, an
\* Epic account login has completed and the Connect login has been issued.
C25_ForcedEgsAuth ==
  \E l \in 1..MaxLogins :
    /\ eos.force_egs_auth
    /\ eos.logins[l].spoof_at_call = 2399830
    /\ eos.logins[l].connect_from = <<"completion">>

\* Call l of EOS_Connect_Login is over as it should be: one Connect login,
\* one call of the host's delegate with the host's client data, the login
\* context, if there was one, freed once.
LoginDone(l) ==
  LET lg == eos.logins[l] IN
  /\ lg.phase = "done"
  /\ Len(lg.connect_from) = 1
  /\ lg.delegate_data = <<"host">>
  /\ lg.ctx = "none" \/ (lg.ctx = "freed" /\ lg.frees = 1)

\* Call l never has more than one Connect login, one delegate call, two
\* Epic login attempts or one free of its context, and never uses the
\* context after the free.
LoginSafe(l) ==
  LET lg == eos.logins[l] IN
  /\ Len(lg.connect_from) <= 1
  /\ Len(lg.delegate_data) <= 1
  /\ Len(lg.creds) <= 2
  /\ lg.frees <= 1
  /\ ~lg.used_after_free

\* C26: when the EOS SDK invokes every completion callback, every
\* EOS_Connect_Login call ends with exactly one original Connect login and
\* exactly one call of the host's delegate with the host's client data,
\* after at most two Epic login attempts, its context freed once and never
\* used after the free.
C26_EveryLoginCompletes ==
  /\ [](\A l \in 1..MaxLogins : LoginSafe(l))
  /\ \A l \in 1..MaxLogins :
       (eos.logins[l].phase # "none") ~> LoginDone(l)

\* C27: when GetSubscribedItems returns, it has written no more IDs than
\* the max_entries it was called with and returns their number: the first
\* min(|mods|, max_entries) elements of mods, then min(|ws_descs|, what is
\* left of max_entries) keys of ws_descs.
C27_CopiesWithinCapacity ==
  /\ (hpc.op = "GetSubscribedItems" /\ hpc.at \in {"unlocked", "locked again"})
       => Len(hpc.ids) <= hpc.asked
  /\ (hpc.op = "GetSubscribedItems" /\ hpc.at = "return") =>
       LET from_mods == IF Len(hpc.seen_mods) < hpc.asked
                          THEN Len(hpc.seen_mods) ELSE hpc.asked
           left == hpc.asked - from_mods
           from_ws == IF Cardinality(hpc.seen_ws_descs) < left
                        THEN Cardinality(hpc.seen_ws_descs) ELSE left
       IN /\ Len(hpc.ids) <= hpc.asked
          /\ hpc.total_copied = Len(hpc.ids)
          /\ Len(hpc.ids) = from_mods + from_ws
          /\ \A k \in 1..from_mods : hpc.ids[k] = hpc.seen_mods[k]
          /\ \A k \in (from_mods + 1)..Len(hpc.ids) :
               hpc.ids[k] \in hpc.seen_ws_descs
          /\ \A j, k \in (from_mods + 1)..Len(hpc.ids) :
               j # k => hpc.ids[j] # hpc.ids[k]

\* C27 witness: GetSubscribedItems returns with the array filled to its
\* capacity while an element of mods or a key of ws_descs did not fit.
C27_Truncated ==
  /\ hpc.op = "GetSubscribedItems" /\ hpc.at = "return"
  /\ hpc.asked > 0
  /\ Len(hpc.ids) = hpc.asked
  /\ Len(hpc.seen_mods) + Cardinality(hpc.seen_ws_descs) > hpc.asked
  /\ hpc.seen_ws_descs # {}

\* C28: when GetItemInstallInfo returns, it has written no more bytes into
\* the folder buffer than the folder_size it was called with.
C28_FolderWithinSize ==
  (hpc.op = "GetItemInstallInfo" /\ hpc.at = "return")
    => hpc.written <= hpc.folder_size

\* C29: whatever show_be_servers, show_unavailable_servers, the effective
\* application ID and the unowned DLC maps are, the array the
\* RequestInternetServerList wrapper passes to the original starts with the
\* host's filters unchanged, every element up to the count passed has been
\* written, nothing is written past the allocation, and the value of an
\* appended "or" or "nor" is the number of elements that follow it.
C29_FiltersWellFormed ==
  list_req.calls = 1 =>
    LET f == list_req.filters
        nf == list_req.new_filters
        n == list_req.num_new_filters
    IN /\ ~list_req.overrun
       /\ Len(nf) = n
       /\ n >= Len(f)
       /\ SubSeq(nf, 1, Len(f)) = f
       /\ \A i \in 1..n : nf[i] # Indeterminate
       /\ \A i \in (Len(f) + 1)..n :
            nf[i].key \in {"or", "nor"} => nf[i].value = ToString(n - i)

\* C29 witness: a request with a host filter, both server filters switched
\* on and two unowned DLC maps has reached the SDK.
C29_UnownedMaps ==
  /\ list_req.calls = 1
  /\ list_req.filters # <<>>
  /\ ~title.show_be_servers
  /\ ~title.show_unavailable_servers
  /\ Len(title.unavailable_dlc) >= 2
  /\ pc = "host"

\* ---------------------------------------------------------------------
\* Claims C31..C33
\* ---------------------------------------------------------------------

\* C31: once DllMain has been called for the process attach it has
\* returned; it returned FALSE exactly when loading the settings failed or
\* the per-title callback returned false, and then wrap_init was not called
\* and no import cell holds the wrapper; when it returned TRUE wrap_init was
\* called exactly once; the process detach calls steamclient::unload(),
\* leaves the library unloaded and returns TRUE.
C31_AttachAndDetachResults ==
  /\ pc # "attach" =>
       /\ attach_res \in {"TRUE", "FALSE"}
       /\ attach_res = "FALSE" <=>
            (dllmain.load = "failed" \/ dllmain.cb = "false")
       /\ attach_res = "FALSE" =>
            /\ dllmain.wrap_init_calls = 0
            /\ HookedCells(image) = {}
       /\ attach_res = "TRUE" => dllmain.wrap_init_calls = 1
  /\ pc = "detached" =>
       /\ dllmain.detach_res = "TRUE"
       /\ dllmain.unload_calls = 1
       /\ ~loaded

\* The IDs of the owned list, each once.
NoIdTwice(dlc) ==
  \A i \in 1..Len(dlc), j \in 1..Len(dlc) : dlc[i].id = dlc[j].id => i = j

\* C32: the DLC update adds only IDs the owned list did not hold: what
\* cb_dlc_info appended is in installed_dlc as well, the settings were saved
\* exactly when an entry was added, and once the update is over the owned
\* list holds no ID twice.
C32_OnlyNewDlcAdded ==
  /\ cm.saves = (IF cm.added = <<>> THEN 0 ELSE 1)
  /\ \A i \in 1..Len(cm.added) :
       /\ cm.added[i].id \in settings.installed_dlc
       /\ \E j \in 1..Len(settings.dlc) : settings.dlc[j] = cm.added[i]
  /\ cm.main = "returned" => NoIdTwice(settings.dlc)

\* What holds of the CM client and of the request data at every moment of
\* an update.
ChainSafe ==
  /\ cm.destroys <= 1
  /\ cm.main = "returned" =>
       /\ cm.client # "created"
       /\ cm.destroys = (IF cm.client = "none" THEN 0 ELSE 1)
  /\ cm.done <=> cm.chain = "over"
  /\ ~cm.bad_delete
  /\ cm.data_frees <= 1
  /\ cm.entries_frees <= cm.entries_allocs
  /\ cm.chain \in {"disconnecting", "over"} =>
       /\ cm.data_pics \in {"none", "freed"}
       /\ cm.data_pics = "freed" <=> cm.data_frees = 1
       /\ cm.entries = "none"
       /\ cm.entries_frees = cm.entries_allocs

\* C33: update_dlc returns on every execution; the CM client it created is
\* destroyed exactly once; every callback leaves the chain at its next
\* request, disconnecting or over with done set; and when a callback has
\* ended the chain, the request data and its entries have been released
\* exactly once, each with the form of delete that matches its allocation.
C33_UpdateDlcReturns ==
  /\ []ChainSafe
  /\ <>(cm.main = "returned")

\* C33 witness: update_dlc has returned after the whole chain ran, the
\* entry of the application and the array of DLC entries both released.
C33_WholeChainRan ==
  /\ cm.main = "returned"
  /\ cm.done
  /\ cm.entries_allocs = 2
  /\ cm.data_frees = 1
  /\ cm.added # <<>>
====
